---------------------------- MODULE Spec2Model ----------------------------
(***************************************************************************)
(* A model of chanjo: the depth reducer (chanjo/utils.py), the interval    *)
(* batcher (chanjo/utils.py), the rollup queries (chanjo/sql/core.py),     *)
(* the coordinate-string parser (chanjo/sql/utils.py), the hierarchy       *)
(* builder (chanjo/core.py, chanjo/sql/pipeline.py) and the annotate and   *)
(* import pipelines (chanjo/core.py).                                      *)
(*                                                                         *)
(* Floating point values are modelled as exact rationals <<num, den>> in   *)
(* lowest terms with den > 0; the value 0/0 (numpy's nan) is <<0, 0>>.     *)
(* Strings that the code splits, strips or formats are sequences of        *)
(* one-character strings.                                                  *)
(***************************************************************************)
EXTENDS Integers, Sequences, FiniteSets, TLC

VARIABLES
  \* ---- depth reducer: one call of calculate_values
  read_depths,    \* the depth slice handed to calculate_values
  cutoff,         \* the completeness threshold
  calc_pc,        \* "ready" | "done"
  calc_result,    \* <<>> before the call, <<coverage, completeness>> after
  \* ---- interval batcher: one run of the generator group_intervals
  gi_intervals,   \* the argument `intervals`: <<start, end, id>> sorted by start
  gi_threshold,   \* the argument `threshold`
  gi_extension,   \* the argument `extension`
  gi_pc,          \* "start" | "loop" | "done"
  gi_pos,         \* index of the interval the iterator `it` yields next
  gi_group,       \* the local `group`
  gi_iStart,      \* the local `iStart`
  gi_iEnd,        \* the local `iEnd`
  gi_out,         \* the groups yielded so far, in order
  \* ---- hierarchy builder: the leaves of one row of the reference table
  pr_written,     \* the coordinate pairs as written in the row
  pr_row,         \* the row: [chromosome, cds_strand, cds_locations]
  pr_pc,          \* "ready" | "done" | "failed"
  pr_leaves,      \* the interval tuples process_set yields for the row
  \* ---- the store (chanjo/sql/models.py) and one import_data run
  db_superset,      \* table superset: records [id, ...]
  db_interval,      \* table interval: records [id, start, end, ...]
  db_set,           \* table set: records [id, superset_id]
  db_interval_set,  \* table interval__set: pairs <<interval_id, set_id>>
  db_sample,        \* table sample: the records Sample(...)
  db_interval_data, \* table interval_data, in autoincrement order
  db_set_data,      \* table set_data, in autoincrement order
  db_superset_data, \* table superset_data, in autoincrement order
  imp_pc,           \* import_data: "idle" | "leaves" | "sets"
  imp_sample,       \* import_data: sample_id of the run in progress
  imp_group,        \* import_data: group_id of the run in progress
  imp_result,       \* import_data: "" | "True" | the name of the exception raised
  \* ---- hierarchy builder: one call of build (chanjo/core.py)
  bd_table,         \* the rows of the reference table, in file order
  bd_bulk,          \* further genes of the table the loop has yet to reach: one
                    \* well-formed Public row each, sorting before bd_table's
  bd_dialect,       \* the argument `dialect`
  bd_force,         \* the argument `force`
  bd_path_exists,   \* path(sql_path).exists()
  bd_pc,            \* "off" | "called" | "loop" | "returned"
  bd_result,        \* "" | "True" | "False" | the name of the exception raised
  bd_groups,        \* raw_supersets: the groups the loop has yet to reach
  bd_count,         \* the local `count`
  bd_session,       \* the session: records added and not yet committed
  bd_added,         \* the local `added_intervals`
  bd_new_interval,  \* the local `new_interval`: id of the interval it names
  db_bulk,          \* committed supersets of the bd_bulk genes
  \* ---- one call of annotate (chanjo/core.py)
  an_args,          \* the arguments of annotate
  an_source,        \* the depth source: how it names contigs, the depths it holds
  an_pc,            \* "off" | "called" | "contigs" | "read" | "group" | "returned"
  an_contigs,       \* contig_ids the loop of annotate has yet to reach
  an_contig_id,     \* the loop variable `contig_id`
  an_groups,        \* the groups of contig_id the batcher has yet to yield
  an_depths,        \* `read_depths` of the group being annotated
  an_out,           \* the lines written to standard out
  an_reads,         \* the calls of coverage.read that have returned, in order
  an_result         \* "" | "0" | the name of the exception raised

calc_vars == <<read_depths, cutoff, calc_pc, calc_result>>

gi_vars == <<gi_intervals, gi_threshold, gi_extension, gi_pc, gi_pos,
             gi_group, gi_iStart, gi_iEnd, gi_out>>

pr_vars == <<pr_written, pr_row, pr_pc, pr_leaves>>

db_vars == <<db_superset, db_interval, db_set, db_interval_set, db_sample, db_interval_data,
             db_set_data, db_superset_data, imp_pc, imp_sample, imp_group, imp_result>>

bd_vars == <<bd_table, bd_bulk, bd_dialect, bd_force, bd_path_exists, bd_pc,
             bd_result, bd_groups, bd_count, bd_session, bd_added,
             bd_new_interval, db_bulk>>

an_vars == <<an_args, an_source, an_pc, an_contigs, an_contig_id, an_groups, an_depths,
             an_out, an_reads, an_result>>

vars == <<calc_vars, gi_vars, pr_vars, db_vars, bd_vars, an_vars>>

-----------------------------------------------------------------------------
(* Bounds of the model *)

MaxDepth == 2
MaxSliceLen == 3
MaxCutoff == 3
MaxPos == 4
MaxIntervals == 3
MaxThreshold == 3
MaxExtension == 1
MaxCoord == 10
MaxPairs == 2

-----------------------------------------------------------------------------
(* Exact arithmetic standing for Python / SQL floats *)

Abs(n) == IF n < 0 THEN -n ELSE n

RECURSIVE GCD(_, _)
GCD(a, b) == IF b = 0 THEN a ELSE GCD(b, a % b)

NaN == <<0, 0>>

\* n / d as a float: lowest terms, positive denominator.
Rat(n, d) ==
  IF d = 0 THEN NaN
  ELSE LET g == GCD(Abs(n), Abs(d))
           s == IF d < 0 THEN -1 ELSE 1
       IN <<(s * n) \div g, (s * d) \div g>>

IsNaN(q) == q[2] = 0

RatAdd(p, q) == Rat(p[1] * q[2] + q[1] * p[2], p[2] * q[2])

RatMul(p, q) == Rat(p[1] * q[1], p[2] * q[2])

\* p / q; SQL yields NULL and numpy nan for a zero divisor, both <<0, 0>>.
RatDiv(p, q) == Rat(p[1] * q[2], p[2] * q[1])

RECURSIVE RatSeqSum(_)
RatSeqSum(s) == IF s = <<>> THEN Rat(0, 1) ELSE RatAdd(Head(s), RatSeqSum(Tail(s)))

\* The elements of a finite set in some order.
RECURSIVE SetToSeq(_)
SetToSeq(S) ==
  IF S = {} THEN <<>>
  ELSE LET x == CHOOSE y \in S : TRUE IN <<x>> \o SetToSeq(S \ {x})

BoundedSeq(S, n) == UNION {[1..k -> S] : k \in 0..n}

-----------------------------------------------------------------------------
(* chanjo/utils.py: the depth reducer *)

RECURSIVE SeqSum(_)
SeqSum(s) == IF s = <<>> THEN 0 ELSE Head(s) + SeqSum(Tail(s))

NumpyMean_floordiv(depths) ==
  IF Len(depths) = 0 THEN NaN ELSE Rat(SeqSum(depths) \div Len(depths), 1)

\* numpy.ndarray.mean(): the sum over the count; for an empty array numpy
\* divides 0.0 by 0 and returns nan (with a RuntimeWarning, no exception).
NumpyMean(depths) ==
  IF Len(depths) = 0 THEN NaN ELSE Rat(SeqSum(depths), Len(depths))

\* Python 3 true division of two ints; x / 0 raises ZeroDivisionError.
ZeroDivisionError == "ZeroDivisionError"

TrueDiv(x, y) == IF y = 0 THEN ZeroDivisionError ELSE Rat(x, y)

calculate_completeness_gt(depths, threshold) ==
  LET base_pair_count == Len(depths)
      passed == SelectSeq(depths, LAMBDA d : d > threshold)
  IN IF base_pair_count = 0 THEN Rat(0, 1)
     ELSE Rat(Len(passed), base_pair_count)

calculate_completeness(depths, threshold) ==
  LET base_pair_count == Len(depths)
      passed == SelectSeq(depths, LAMBDA d : d >= threshold)
  IN \* try: len(filtered) / base_pair_count  except ZeroDivisionError: 0.
     IF base_pair_count = 0 THEN Rat(0, 1)
     ELSE TrueDiv(Len(passed), base_pair_count)

calculate_values(depths, threshold) ==
  <<NumpyMean(depths), calculate_completeness(depths, threshold)>>

CalcInit ==
  /\ read_depths \in BoundedSeq(0..MaxDepth, MaxSliceLen)
  /\ cutoff \in 0..MaxCutoff
  /\ calc_pc = "ready"
  /\ calc_result = <<>>

CalcIdle ==
  /\ read_depths = <<>>
  /\ cutoff = 0
  /\ calc_pc = "idle"
  /\ calc_result = <<>>

\* One call calculate_values(read_depths, cutoff).
CalculateValues ==
  /\ calc_pc = "ready"
  /\ calc_result' = calculate_values(read_depths, cutoff)
  /\ calc_pc' = "done"
  /\ UNCHANGED <<read_depths, cutoff>>
  /\ UNCHANGED <<gi_vars, pr_vars, db_vars, bd_vars, an_vars>>

-----------------------------------------------------------------------------
(* chanjo/utils.py: the interval batcher, a generator run step by step *)

Max(a, b) == IF a > b THEN a ELSE b

\* The rows get_intervals returns for a contig: (start, end, id) with
\* start <= end, ordered by start; the id is the row's rank here.
IntervalRows ==
  LET Coords == {c \in (1..MaxPos) \X (1..MaxPos) : c[1] <= c[2]}
      Lists == BoundedSeq(Coords, MaxIntervals)
      Sorted(l) == \A i \in 1..(Len(l) - 1) : l[i][1] <= l[i + 1][1]
  IN {[i \in 1..Len(l) |-> <<l[i][1], l[i][2], i>>] : l \in {m \in Lists : Sorted(m)}}

\* The intervals of test_group_intervals, run with threshold 30.
TestIntervals ==
  <<<<5, 15, 1>>, <<5, 20, 2>>, <<25, 30, 3>>, <<30, 65, 4>>, <<60, 82, 5>>,
    <<83, 88, 6>>>>

TestThreshold == 30

TestExtension == 2

\* group = [(iStart - extension, iEnd + extension, interval_id)]
FirstGroup(interval, extension) ==
  <<<<interval[1] - extension, interval[2] + extension, interval[3]>>>>

\* start -= extension; end += extension
Widened(interval, extension) ==
  <<interval[1] - extension, interval[2] + extension, interval[3]>>

BigEnough_ge(iStart, iEnd, threshold) == (iEnd - iStart) >= threshold

\* if (iEnd - iStart) > threshold
BigEnough(iStart, iEnd, threshold) == (iEnd - iStart) > threshold

NewGroup_dropped(widened) == <<>>

\* group = [(start, end, interval_id)]
NewGroup(widened) == <<widened>>

GroupInit ==
  /\ \/ /\ gi_intervals \in IntervalRows
        /\ gi_threshold \in 0..MaxThreshold
        /\ gi_extension \in 0..MaxExtension
     \/ /\ gi_intervals = TestIntervals
        /\ gi_threshold = TestThreshold
        /\ gi_extension \in {0, TestExtension}
  /\ gi_pc = "start"
  /\ gi_pos = 1
  /\ gi_group = <<>>
  /\ gi_iStart = 0
  /\ gi_iEnd = 0
  /\ gi_out = <<>>

GroupIdle ==
  /\ gi_intervals = <<>>
  /\ gi_threshold = 0
  /\ gi_extension = 0
  /\ gi_pc = "idle"
  /\ gi_pos = 1
  /\ gi_group = <<>>
  /\ gi_iStart = 0
  /\ gi_iEnd = 0
  /\ gi_out = <<>>

\* it = iter(intervals); interval = next(it); ...; group = [...]
\* On an empty list next(it) raises StopIteration inside the generator,
\* which ends it without a group.
GroupBegin ==
  /\ gi_pc = "start"
  /\ IF Len(gi_intervals) = 0
     THEN /\ gi_pc' = "done"
          /\ UNCHANGED <<gi_pos, gi_group, gi_iStart, gi_iEnd>>
     ELSE /\ gi_iStart' = gi_intervals[1][1]
          /\ gi_iEnd' = gi_intervals[1][2]
          /\ gi_group' = FirstGroup(gi_intervals[1], gi_extension)
          /\ gi_pos' = 2
          /\ gi_pc' = "loop"
  /\ UNCHANGED <<gi_intervals, gi_threshold, gi_extension, gi_out>>
  /\ UNCHANGED <<calc_vars, pr_vars, db_vars, bd_vars, an_vars>>

\* One pass of `for interval in it`.
GroupStep ==
  /\ gi_pc = "loop"
  /\ gi_pos <= Len(gi_intervals)
  /\ LET w == Widened(gi_intervals[gi_pos], gi_extension)
         iEnd == Max(gi_iEnd, w[2])
     IN IF BigEnough(gi_iStart, iEnd, gi_threshold)
        THEN /\ gi_out' = Append(gi_out, gi_group)
             /\ gi_group' = NewGroup(w)
             /\ gi_iStart' = w[1]
             /\ gi_iEnd' = w[2]
        ELSE /\ gi_group' = Append(gi_group, w)
             /\ gi_iEnd' = iEnd
             /\ UNCHANGED <<gi_iStart, gi_out>>
  /\ gi_pos' = gi_pos + 1
  /\ UNCHANGED <<gi_intervals, gi_threshold, gi_extension, gi_pc>>
  /\ UNCHANGED <<calc_vars, pr_vars, db_vars, bd_vars, an_vars>>

\* The iterator is exhausted: yield the last group.
GroupEnd ==
  /\ gi_pc = "loop"
  /\ gi_pos > Len(gi_intervals)
  /\ gi_out' = Append(gi_out, gi_group)
  /\ gi_pc' = "done"
  /\ UNCHANGED <<gi_intervals, gi_threshold, gi_extension, gi_pos, gi_group,
                 gi_iStart, gi_iEnd>>
  /\ UNCHANGED <<calc_vars, pr_vars, db_vars, bd_vars, an_vars>>

-----------------------------------------------------------------------------
(* chanjo/sql/utils.py: the leaves of one row of the reference table *)

Digits == <<"0", "1", "2", "3", "4", "5", "6", "7", "8", "9">>

DigitValue(c) == (CHOOSE i \in 1..10 : Digits[i] = c) - 1

IsDigit(c) == \E i \in 1..10 : Digits[i] = c

\* str(n) / '{}'.format(n) of an int: its decimal digits, '-' first if n < 0.
RECURSIVE NatStr(_)
NatStr(n) ==
  IF n < 10 THEN <<Digits[n + 1]>> ELSE NatStr(n \div 10) \o <<Digits[(n % 10) + 1]>>

IntStr(n) == IF n < 0 THEN <<"-">> \o NatStr(-n) ELSE NatStr(n)

\* s.split(sep) for a one-character separator.
RECURSIVE Split(_, _)
Split(s, sep) ==
  IF \A i \in 1..Len(s) : s[i] # sep THEN <<s>>
  ELSE LET k == CHOOSE i \in 1..Len(s) :
                   s[i] = sep /\ \A j \in 1..(i - 1) : s[j] # sep
       IN <<SubSeq(s, 1, k - 1)>> \o Split(SubSeq(s, k + 1, Len(s)), sep)

\* int(s) accepts here a non-empty run of decimal digits; anything else
\* raises ValueError.
IntParses(s) == Len(s) > 0 /\ \A i \in 1..Len(s) : IsDigit(s[i])

RECURSIVE IntOf(_)
IntOf(s) ==
  IF Len(s) = 0 THEN 0
  ELSE 10 * IntOf(SubSeq(s, 1, Len(s) - 1)) + DigitValue(s[Len(s)])

\* interval[0] -= 1; interval[1] -= 1
CorrectCoords(interval) ==
  [k \in 1..Len(interval) |-> IF k <= 2 THEN interval[k] - 1 ELSE interval[k]]

\* Returns <<"ok", intervals>>, or <<"ValueError">> when an item does not
\* parse as ints, or <<"IndexError">> when an item holds fewer than two.
parse_raw_intervals(str_list) ==
  LET csv_intervals ==
        SelectSeq(SubSeq(str_list, 2, Len(str_list) - 1), LAMBDA c : c # " ")
      items == Split(csv_intervals, ",")
      parts == [i \in 1..Len(items) |-> Split(items[i], "-")]
  IN IF \E i \in 1..Len(parts) : \E k \in 1..Len(parts[i]) : ~IntParses(parts[i][k])
     THEN <<"ValueError">>
     ELSE IF \E i \in 1..Len(parts) : Len(parts[i]) < 2
     THEN <<"IndexError">>
     ELSE <<"ok", [i \in 1..Len(parts) |->
                     CorrectCoords([k \in 1..Len(parts[i]) |-> IntOf(parts[i][k])])]>>

\* (id, contig_id, start, end, strand)
build_interval(raw_interval, raw_set) ==
  LET contig_id == raw_set.chromosome
  IN <<contig_id \o <<"-">> \o IntStr(raw_interval[1]) \o <<"-">>
         \o IntStr(raw_interval[2]),
       contig_id, raw_interval[1], raw_interval[2], raw_set.cds_strand>>

\* chanjo/core.py, _convert_old_interval_id: the parent_id import_json gives
\* the annotation of the legacy identifier old_id.
convert_old_interval_id(old_id) ==
  LET parts == Split(old_id, "-")
  IN parts[1] \o <<"-">> \o IntStr(IntOf(parts[2]) + 1) \o <<"-">>
       \o IntStr(IntOf(parts[3]) + 1)

\* The cds_locations text of a row listing `pairs`: '[a-b, c-d]'.
RECURSIVE JoinPairs(_, _)
JoinPairs(pairs, sep) ==
  IF Len(pairs) = 0 THEN <<>>
  ELSE LET one == IntStr(pairs[1][1]) \o <<"-">> \o IntStr(pairs[1][2])
       IN IF Len(pairs) = 1 THEN one
          ELSE one \o sep \o JoinPairs(Tail(pairs), sep)

Locations(pairs, sep) == <<"[">> \o JoinPairs(pairs, sep) \o <<"]">>

Contigs == {<<"2", "2">>, <<"X">>}

Separators == {<<",", " ">>, <<",">>}

\* The pairs of the string '[100-200, 300-400]'.
TestPairs == <<<<100, 200>>, <<300, 400>>>>

WrittenPairs ==
  LET Pair == {c \in (1..MaxCoord) \X (1..MaxCoord) : c[1] <= c[2]}
  IN BoundedSeq(Pair, MaxPairs) \cup {TestPairs}

ParseInit ==
  /\ pr_written \in WrittenPairs
  /\ \E contig \in Contigs, sep \in Separators, strand \in {"+"} :
       pr_row = [chromosome |-> contig, cds_strand |-> strand,
                 cds_locations |-> Locations(pr_written, sep)]
  /\ pr_pc = "ready"
  /\ pr_leaves = <<>>

ParseIdle ==
  /\ pr_written = <<>>
  /\ pr_row = [chromosome |-> <<>>, cds_strand |-> "+", cds_locations |-> <<>>]
  /\ pr_pc = "idle"
  /\ pr_leaves = <<>>

\* process_set: the interval tuples of the row, all of them drawn.
ProcessSet ==
  /\ pr_pc = "ready"
  /\ LET parsed == parse_raw_intervals(pr_row.cds_locations)
     IN IF parsed[1] = "ok"
        THEN /\ pr_leaves' = [i \in 1..Len(parsed[2]) |->
                                build_interval(parsed[2][i], pr_row)]
             /\ pr_pc' = "done"
        ELSE /\ pr_pc' = "failed"
             /\ UNCHANGED pr_leaves
  /\ UNCHANGED <<pr_written, pr_row>>
  /\ UNCHANGED <<calc_vars, gi_vars, db_vars, bd_vars, an_vars>>

-----------------------------------------------------------------------------
(* chanjo/sql/core.py, chanjo/core.py: the rollup queries and import_data *)

\* Leaves by stored coordinates: lengths 10, 90 and 800.
Leaf(id) ==
  CASE id = "e1" -> [id |-> "e1", start |-> 1, end |-> 10]
    [] id = "e2" -> [id |-> "e2", start |-> 11, end |-> 100]
    [] id = "e3" -> [id |-> "e3", start |-> 101, end |-> 900]

\* Leaf ids in the order annotate writes them (by start).
LeafOrder == <<"e1", "e2", "e3">>

SetOrder == <<"t1", "t2">>

SupersetOrder == <<"g1", "g2">>

SequenceRange(s) == {s[i] : i \in 1..Len(s)}

SampleIds == {"s1", "s2"}

GroupIds == {"fam1", "fam2"}

\* (coverage, completeness) of a data line.
DataValues == {<<Rat(0, 1), Rat(0, 1)>>, <<Rat(100, 1), Rat(1, 2)>>}

\* The data lines of an annotate output on a store: at most one line per
\* stored leaf, in leaf order, each <<leaf_id, coverage, completeness>>.
AnnotateOutputs(intervals) ==
  LET Choices == [1..Len(LeafOrder) -> DataValues \cup {<<>>}]
      Lines(f) == [i \in 1..Len(LeafOrder) |->
                     IF f[i] = <<>> THEN <<>> ELSE <<LeafOrder[i], f[i][1], f[i][2]>>]
      Stored(f) == \A i \in 1..Len(LeafOrder) :
                     f[i] # <<>> => \E iv \in intervals : iv.id = LeafOrder[i]
  IN {SelectSeq(Lines(f), LAMBDA l : l # <<>>) : f \in {g \in Choices : Stored(g)}}

\* The stores a build leaves behind over the leaves `ids`: every leaf belongs
\* to a set, every set has a leaf and one parent superset.
BuiltStores(ids) ==
  LET Links == {L \in SUBSET (ids \X SequenceRange(SetOrder)) :
                  /\ \A e \in ids : \E l \in L : l[1] = e
                  /\ \A t \in SequenceRange(SetOrder) : \E l \in L : l[2] = t}
      Sets == {{[id |-> t, superset_id |-> parent[t]] : t \in SequenceRange(SetOrder)} :
                 parent \in [SequenceRange(SetOrder) -> SequenceRange(SupersetOrder)]}
  IN {[interval |-> {Leaf(e) : e \in ids}, interval_set |-> L, set |-> S] :
        L \in Links, S \in Sets}

\* The store of the rollup examples: t1 = {e1, e2} and t2 = {e1, e2, e3},
\* both under g1.
ExampleStore ==
  [interval |-> {Leaf("e1"), Leaf("e2"), Leaf("e3")},
   interval_set |-> {<<"e1", "t1">>, <<"e2", "t1">>, <<"e1", "t2">>, <<"e2", "t2">>,
                     <<"e3", "t2">>},
   set |-> {[id |-> "t1", superset_id |-> "g1"], [id |-> "t2", superset_id |-> "g1"]}]

interval_length_exclusive(interval) == interval.end - interval.start

\* interval_length = Interval.end - Interval.start + 1
interval_length(interval) == interval.end - interval.start + 1

SetStatsJoin_any_sample(sample_id) ==
  {r \in db_interval_set \X db_interval \X (1..Len(db_interval_data)) :
     /\ r[1][1] = r[2].id
     /\ r[2].id = db_interval_data[r[3]].parent_id}

\* The rows of interval__set JOIN interval JOIN interval_data that pass
\* .filter(IntervalData.sample_id == sample_id): <<link, interval, data row>>.
SetStatsJoin(sample_id) ==
  {r \in db_interval_set \X db_interval \X (1..Len(db_interval_data)) :
     /\ r[1][1] = r[2].id
     /\ r[2].id = db_interval_data[r[3]].parent_id
     /\ db_interval_data[r[3]].sample_id = sample_id}

\* One row (set_id, coverage, completeness) per group of .group_by(set_id).
set_stats(sample_id) ==
  LET joined == SetStatsJoin(sample_id)
      keys == {r[1][2] : r \in joined}
      Row(set_id) ==
        LET rows == SetToSeq({r \in joined : r[1][2] = set_id})
            cum_set_coverage ==
              RatSeqSum([i \in 1..Len(rows) |->
                RatMul(Rat(interval_length(rows[i][2]), 1),
                       db_interval_data[rows[i][3]].coverage)])
            cum_set_completeness ==
              RatSeqSum([i \in 1..Len(rows) |->
                RatMul(Rat(interval_length(rows[i][2]), 1),
                       db_interval_data[rows[i][3]].completeness)])
            total_set_length ==
              SeqSum([i \in 1..Len(rows) |-> interval_length(rows[i][2])])
        IN <<set_id, RatDiv(cum_set_coverage, Rat(total_set_length, 1)),
             RatDiv(cum_set_completeness, Rat(total_set_length, 1))>>
      present == SelectSeq(SetOrder, LAMBDA t : t \in keys)
  IN [i \in 1..Len(present) |-> Row(present[i])]

\* Set.__len__: the combined number of interval bases of a set.
SetLen(set_id) ==
  LET linked == SetToSeq({iv \in db_interval : <<iv.id, set_id>> \in db_interval_set})
  IN SeqSum([i \in 1..Len(linked) |-> interval_length(linked[i])])

\* The rows of set JOIN set_data that pass .filter(SetData.sample_id ==
\* sample_id): <<set, data row>>.
SupersetStatsJoin(sample_id) ==
  {r \in db_set \X (1..Len(db_set_data)) :
     /\ r[1].id = db_set_data[r[2]].parent_id
     /\ db_set_data[r[2]].sample_id = sample_id}

func_avg_by_length(rows, values) ==
  RatDiv(RatSeqSum([i \in 1..Len(rows) |->
                      RatMul(Rat(SetLen(rows[i][1].id), 1), values[i])]),
         Rat(SeqSum([i \in 1..Len(rows) |-> SetLen(rows[i][1].id)]), 1))

\* func.avg over the rows of a group; values[i] is the column of rows[i].
func_avg(rows, values) == RatDiv(RatSeqSum(values), Rat(Len(values), 1))

superset_stats_per_set(sample_id) ==
  LET joined == SetToSeq(SupersetStatsJoin(sample_id))
  IN [i \in 1..Len(joined) |->
        <<joined[i][1].superset_id, db_set_data[joined[i][2]].coverage,
          db_set_data[joined[i][2]].completeness>>]

\* One row (superset_id, coverage, completeness) per group of
\* .group_by(Set.superset_id).
superset_stats(sample_id) ==
  LET joined == SupersetStatsJoin(sample_id)
      keys == {r[1].superset_id : r \in joined}
      Row(superset_id) ==
        LET rows == SetToSeq({r \in joined : r[1].superset_id = superset_id})
        IN <<superset_id,
             func_avg(rows, [i \in 1..Len(rows) |-> db_set_data[rows[i][2]].coverage]),
             func_avg(rows, [i \in 1..Len(rows) |-> db_set_data[rows[i][2]].completeness])>>
      present == SelectSeq(SupersetOrder, LAMBDA g : g \in keys)
  IN [i \in 1..Len(present) |-> Row(present[i])]

DataRecord_swapped(parent_id, sample_id, group_id, coverage, completeness) ==
  [parent_id |-> parent_id, sample_id |-> sample_id, group_id |-> group_id,
   coverage |-> completeness, completeness |-> coverage]

\* db.create('interval_data' | 'set_data' | 'superset_data', ...)
DataRecord(parent_id, sample_id, group_id, coverage, completeness) ==
  [parent_id |-> parent_id, sample_id |-> sample_id, group_id |-> group_id,
   coverage |-> coverage, completeness |-> completeness]

\* Sample(sample_id, group_id, cutoff, coverage_source, element_source,
\* extension): the record of table sample, sample_id in its primary key id.
Sample(metadata) ==
  [id |-> metadata.sample_id, group_id |-> metadata.group_id, cutoff |-> metadata.cutoff,
   coverage_source |-> metadata.coverage_source,
   element_source |-> metadata.element_source, extension |-> metadata.extension]

\* A path is the sequence of its parts, "/" first when it is absolute.
Cwd == <<"/", "work">>

\* path(p).abspath()
abspath(p) == IF p # <<>> /\ p[1] = "/" THEN p ELSE Cwd \o p

\* The dict `header` of annotate.
AnnotateHeader(args) ==
  [sample_id |-> args.sample_id, group_id |-> args.group_id, cutoff |-> args.cutoff,
   coverage_source |-> abspath(args.bam_path),
   element_source |-> abspath(args.sql_path), extension |-> args.extension]

HeaderKeys ==
  <<"sample_id", "group_id", "cutoff", "coverage_source", "element_source", "extension">>

\* json.dumps(header): the members of the object, each <<key, value>>.
json_dumps(header) == [i \in 1..Len(HeaderKeys) |-> <<HeaderKeys[i], header[HeaderKeys[i]]>>]

\* json.loads(text): the dict of the members; the line end after them is
\* white space.
json_loads(text) ==
  LET members == SelectSeq(text, LAMBDA x : Len(x) = 2)
  IN [k \in {members[i][1] : i \in 1..Len(members)} |->
        (CHOOSE mb \in SequenceRange(members) : mb[1] = k)[2]]

\* '#{}\n'.format(json.dumps(header)): the marker, the members, the line end.
HeaderLine(header) == <<"#">> \o json_dumps(header) \o <<"\n">>

\* str(x) of a float.  str writes the shortest text that float() reads back
\* as the same value; with floats as exact rationals that text is
\* 'numerator/denominator' in lowest terms, and 'nan' for nan.
FloatStr(q) ==
  IF IsNaN(q) THEN <<"n", "a", "n">> ELSE IntStr(q[1]) \o <<"/">> \o NatStr(q[2])

Unsigned(s) == IF s # <<>> /\ s[1] = "-" THEN Tail(s) ELSE s

\* float(s) returns; otherwise it raises ValueError.
FloatParses(s) ==
  \/ s = <<"n", "a", "n">>
  \/ LET parts == Split(s, "/")
     IN /\ Len(parts) = 2
        /\ IntParses(Unsigned(parts[1]))
        /\ IntParses(parts[2])
        /\ IntOf(parts[2]) > 0

\* float(s)
FloatOf(s) ==
  IF s = <<"n", "a", "n">> THEN NaN
  ELSE LET parts == Split(s, "/")
           magnitude == IntOf(Unsigned(parts[1]))
       IN Rat(IF parts[1] # Unsigned(parts[1]) THEN -magnitude ELSE magnitude,
              IntOf(parts[2]))

\* '\t'.join(fields)
RECURSIVE JoinTabs(_)
JoinTabs(fields) ==
  IF Len(fields) = 0 THEN <<>>
  ELSE IF Len(fields) = 1 THEN fields[1]
  ELSE fields[1] \o <<"\t">> \o JoinTabs(Tail(fields))

\* '\t'.join(map(str, [interval[2], coverage, completeness, '\n'])); an
\* interval id is one symbol of the text.
DataLine(interval_id, coverage, completeness) ==
  JoinTabs(<<<<interval_id>>, FloatStr(coverage), FloatStr(completeness), <<"\n">>>>)

\* A row of csv.reader(input_stream, delimiter='\t'): the fields of the line
\* without its line end.
csv_row(line) == Split(SubSeq(line, 1, Len(line) - 1), "\t")

\* The exception the pass of the loop of import_data raises on a row, "" if
\* none: args = (line[0], sample_id, group_id, float(line[1]), float(line[2])).
RowError(row) ==
  IF Len(row) < 2 THEN "IndexError"
  ELSE IF ~FloatParses(row[2]) THEN "ValueError"
  ELSE IF Len(row) < 3 THEN "IndexError"
  ELSE IF ~FloatParses(row[3]) THEN "ValueError"
  ELSE ""

\* import_data up to its db.commit(): <<"ok", the Sample record, the
\* interval_data records>> added to the session, or the exception raised on
\* the first row that does not parse.
import_data_session(stream) ==
  LET metadata == json_loads(Tail(stream[1]))
      rows == [i \in 1..(Len(stream) - 1) |-> csv_row(stream[i + 1])]
      failing == {i \in 1..Len(rows) : RowError(rows[i]) # ""}
  IN IF failing # {}
     THEN <<RowError(rows[CHOOSE i \in failing : \A j \in failing : i <= j])>>
     ELSE <<"ok", Sample(metadata),
            [i \in 1..Len(rows) |->
               DataRecord(rows[i][1][1], metadata.sample_id, metadata.group_id,
                          FloatOf(rows[i][2]), FloatOf(rows[i][3]))]>>

import_data_outcome_flushed(stream) ==
  LET session == import_data_session(stream)
  IN IF session[1] # "ok" THEN <<session[1], db_sample, db_interval_data>>
     ELSE IF \E smp \in db_sample : smp.id = session[2].id
     THEN <<"IntegrityError", db_sample, db_interval_data \o session[3]>>
     ELSE <<"ok", db_sample \cup {session[2]}, db_interval_data \o session[3]>>

\* import_data through its db.commit(): <<result, table sample, table
\* interval_data>>.  An exception before the commit leaves the session's
\* records unwritten; sample.id is the primary key, so the commit of a
\* sample_id that is stored raises IntegrityError and writes nothing.
import_data_outcome(stream) ==
  LET session == import_data_session(stream)
  IN IF session[1] # "ok" THEN <<session[1], db_sample, db_interval_data>>
     ELSE IF \E smp \in db_sample : smp.id = session[2].id
     THEN <<"IntegrityError", db_sample, db_interval_data>>
     ELSE <<"ok", db_sample \cup {session[2]}, db_interval_data \o session[3]>>

\* --cutoff and --threshold when not given (chanjo.py).
DefaultCutoff == 10

DefaultThreshold == 17000

\* The arguments of an annotate run whose output is imported.
DefaultArgs(sample_id, group_id) ==
  [sample_id |-> sample_id, group_id |-> group_id, cutoff |-> DefaultCutoff,
   bam_path |-> <<"align.bam">>, sql_path |-> <<"/", "data", "store.sqlite">>,
   extension |-> 0, prepend |-> <<>>, bp_threshold |-> DefaultThreshold]

\* Lines that do not parse: a coverage that is no number, and a line of one
\* field.
BadLines ==
  {JoinTabs(<<<<LeafOrder[1]>>, <<"x">>, FloatStr(Rat(0, 1)), <<"\n">>>>),
   <<LeafOrder[1], "\n">>}

\* The outputs of annotate runs on the store for a sample that is not stored.
GeneratedStreams ==
  LET Lines(out) == [i \in 1..Len(out) |-> DataLine(out[i][1], out[i][2], out[i][3])]
      NewSampleIds == {sample_id \in SampleIds : \A smp \in db_sample : smp.id # sample_id}
  IN {<<HeaderLine(AnnotateHeader(DefaultArgs(sample_id, group_id)))>> \o Lines(out) :
        sample_id \in NewSampleIds, group_id \in GroupIds,
        out \in AnnotateOutputs(db_interval)}

\* input_stream: generated, or the standard out of the annotate run, whole or
\* ending in a line that does not parse.
InputStreams ==
  IF an_pc = "off" THEN GeneratedStreams
  ELSE IF an_pc = "returned" /\ an_result = "0"
  THEN {an_out} \cup {Append(an_out, bad) : bad \in BadLines}
  ELSE {}

StoreInit ==
  /\ \E built \in BuiltStores({"e1", "e2"}) \cup {ExampleStore} :
       /\ db_superset = {[id |-> t.superset_id] : t \in built.set}
       /\ db_interval = built.interval
       /\ db_interval_set = built.interval_set
       /\ db_set = built.set
  /\ db_sample = {}
  /\ db_interval_data = <<>>
  /\ db_set_data = <<>>
  /\ db_superset_data = <<>>
  /\ imp_pc = "idle"
  /\ imp_sample = ""
  /\ imp_group = ""
  /\ imp_result = ""

StoreIdle ==
  /\ db_superset = {}
  /\ db_interval = {}
  /\ db_interval_set = {}
  /\ db_set = {}
  /\ db_sample = {}
  /\ db_interval_data = <<>>
  /\ db_set_data = <<>>
  /\ db_superset_data = <<>>
  /\ imp_pc = "off"
  /\ imp_sample = ""
  /\ imp_group = ""
  /\ imp_result = ""

\* import_data through its db.commit(): the header is read, the Sample record
\* and one interval_data record per data line are added and committed.  When
\* it raises, import_data ends there.
ImportLeaves ==
  /\ imp_pc = "idle"
  /\ \E stream \in InputStreams :
       LET outcome == import_data_outcome(stream)
           metadata == json_loads(Tail(stream[1]))
       IN /\ db_sample' = outcome[2]
          /\ db_interval_data' = outcome[3]
          /\ IF outcome[1] = "ok"
             THEN /\ imp_pc' = "leaves"
                  /\ imp_sample' = metadata.sample_id
                  /\ imp_group' = metadata.group_id
                  /\ imp_result' = ""
             ELSE /\ imp_result' = outcome[1]
                  /\ UNCHANGED <<imp_pc, imp_sample, imp_group>>
  /\ UNCHANGED <<db_superset, db_interval, db_set, db_interval_set, db_set_data,
                 db_superset_data>>
  /\ UNCHANGED <<calc_vars, gi_vars, pr_vars, bd_vars, an_vars>>

ExtendSets_uncommitted ==
  /\ imp_pc = "leaves"
  /\ imp_pc' = "sets"
  /\ UNCHANGED <<db_superset, db_interval, db_set, db_interval_set, db_sample,
                 db_interval_data, db_set_data, db_superset_data, imp_sample, imp_group,
                 imp_result>>
  /\ UNCHANGED <<calc_vars, gi_vars, pr_vars, bd_vars, an_vars>>

\* extend_annotations, first half: set_data from set_stats, then commit.
ExtendSets ==
  /\ imp_pc = "leaves"
  /\ LET stats == set_stats(imp_sample)
     IN db_set_data' = db_set_data \o
          [i \in 1..Len(stats) |->
             DataRecord(stats[i][1], imp_sample, imp_group, stats[i][2], stats[i][3])]
  /\ imp_pc' = "sets"
  /\ UNCHANGED <<db_superset, db_interval, db_set, db_interval_set, db_sample,
                 db_interval_data, db_superset_data, imp_sample, imp_group, imp_result>>
  /\ UNCHANGED <<calc_vars, gi_vars, pr_vars, bd_vars, an_vars>>

\* extend_annotations, second half: superset_data from superset_stats, then
\* commit; import_data returns True.
ExtendSupersets ==
  /\ imp_pc = "sets"
  /\ LET stats == superset_stats(imp_sample)
     IN db_superset_data' = db_superset_data \o
          [i \in 1..Len(stats) |->
             DataRecord(stats[i][1], imp_sample, imp_group, stats[i][2], stats[i][3])]
  /\ imp_pc' = "idle"
  /\ imp_result' = "True"
  /\ UNCHANGED <<db_superset, db_interval, db_set, db_interval_set, db_sample,
                 db_interval_data, db_set_data, imp_sample, imp_group>>
  /\ UNCHANGED <<calc_vars, gi_vars, pr_vars, bd_vars, an_vars>>

-----------------------------------------------------------------------------
(* chanjo/core.py, chanjo/sql/pipeline.py, chanjo/sql/utils.py: build *)

\* if count % 3000 == 0
CommitEvery == 3000

Sqlite == <<"s", "q", "l", "i", "t", "e">>

Mysql == <<"m", "y", "s", "q", "l">>

MysqlConnector == Mysql \o <<"+", "p", "y", "m", "y", "s", "q", "l">>

\* s.startswith(prefix)
StartsWith(s, prefix) ==
  Len(s) >= Len(prefix) /\ SubSeq(s, 1, Len(prefix)) = prefix

\* Column values of the modelled rows, each list in the order numpy sorts
\* unicode strings.
ContigOrder == <<<<"1">>, <<"X">>, <<"Y">>>>

GeneOrder == <<<<"G", "1">>, <<"G", "2">>>>

CcdsOrder == <<<<"T", "1">>, <<"T", "2">>>>

StatusOrder == <<"Public", "Withdrawn">>

Rank(order, x) == CHOOSE i \in 1..Len(order) : order[i] = x

\* The (gene, chromosome) pairs of the modelled rows: G1 lies on an autosome
\* and on both sex contigs.
Placements ==
  {<<GeneOrder[1], c>> : c \in SequenceRange(ContigOrder)} \cup {<<GeneOrder[2], ContigOrder[1]>>}

\* cds_from, cds_to and cds_locations of a row.  The last text misses the end
\* of its second pair.
RowShapes ==
  LET sep == <<",", " ">>
  IN {[cds_from |-> 2, cds_to |-> 3, cds_locations |-> Locations(<<<<2, 3>>>>, sep)],
      [cds_from |-> 5, cds_to |-> 6, cds_locations |-> Locations(<<<<5, 6>>>>, sep)],
      [cds_from |-> 2, cds_to |-> 6,
       cds_locations |-> Locations(<<<<2, 3>>, <<5, 6>>>>, sep)],
      [cds_from |-> 2, cds_to |-> 6,
       cds_locations |-> <<"[">> \o JoinPairs(<<<<2, 3>>>>, sep) \o sep \o <<"5", "-", "]">>]}

\* A row of the reference table (the columns the build reads).
Row(placement, ccds_id, ccds_status, shape) ==
  [chromosome |-> placement[2], gene |-> placement[1], gene_id |-> Rank(GeneOrder, placement[1]),
   ccds_id |-> ccds_id, ccds_status |-> ccds_status, cds_strand |-> "+",
   cds_from |-> shape.cds_from, cds_to |-> shape.cds_to,
   cds_locations |-> shape.cds_locations]

\* load_ccds: the tables of one or two rows, row i carrying the i-th ccds_id.
Tables ==
  LET RowsOf(ccds_id) == {Row(p, ccds_id, st, sh) :
                            p \in Placements, st \in SequenceRange(StatusOrder), sh \in RowShapes}
  IN {<<r>> : r \in RowsOf(CcdsOrder[1])}
     \cup {<<r1, r2>> : r1 \in RowsOf(CcdsOrder[1]), r2 \in RowsOf(CcdsOrder[2])}

\* array[array[column_id] == value], for column_id = 'ccds_status'
filter_by_column_all(array, value) == array

filter_by_column(array, value) == SelectSeq(array, LAMBDA r : r.ccds_status = value)

\* np.argsort(array, order=('gene', 'chromosome')): by gene, then chromosome,
\* ties broken by the remaining columns in their order (ccds_id tells the
\* modelled rows apart).
RowBefore(a, b) ==
  LET ka == <<Rank(GeneOrder, a.gene), Rank(ContigOrder, a.chromosome), Rank(CcdsOrder, a.ccds_id)>>
      kb == <<Rank(GeneOrder, b.gene), Rank(ContigOrder, b.chromosome), Rank(CcdsOrder, b.ccds_id)>>
  IN \/ ka[1] < kb[1]
     \/ ka[1] = kb[1] /\ ka[2] < kb[2]
     \/ ka[1] = kb[1] /\ ka[2] = kb[2] /\ ka[3] < kb[3]

RECURSIVE SortedRows(_)
SortedRows(S) ==
  IF S = {} THEN <<>>
  ELSE LET first == CHOOSE r \in S : \A o \in S \ {r} : RowBefore(r, o)
       IN <<first>> \o SortedRows(S \ {first})

sort_by_columns(array) == SortedRows(SequenceRange(array))

\* itertools.groupby(sorted_sets, lambda x: x['gene']): runs of rows of one gene.
RECURSIVE GroupBy(_)
GroupBy(rows) ==
  IF rows = <<>> THEN <<>>
  ELSE LET key == rows[1].gene
           n == CHOOSE k \in 1..Len(rows) :
                  /\ \A i \in 1..k : rows[i].gene = key
                  /\ k = Len(rows) \/ rows[k + 1].gene # key
       IN <<SubSeq(rows, 1, n)>> \o GroupBy(SubSeq(rows, n + 1, Len(rows)))

MinOf(S) == CHOOSE m \in S : \A x \in S : m <= x

MaxOf(S) == CHOOSE m \in S : \A x \in S : m >= x

SexContigs == {<<"X">>, <<"Y">>}

\* '{}-{}'.format(contig_id, id) on a sex contig, else id
Prefixed(contig_id, id) ==
  IF contig_id \in SexContigs THEN contig_id \o <<"-">> \o id ELSE id

build_superset_first_row(raw_superset) ==
  LET any_set == raw_superset[1]
  IN [id |-> Prefixed(any_set.chromosome, any_set.gene),
      contig_id |-> any_set.chromosome,
      start |-> any_set.cds_from,
      end |-> any_set.cds_to,
      strand |-> any_set.cds_strand,
      secondary_id |-> any_set.gene_id]

\* The Superset record of a group of rows.
build_superset(raw_superset) ==
  LET any_set == raw_superset[1]
  IN [id |-> Prefixed(any_set.chromosome, any_set.gene),
      contig_id |-> any_set.chromosome,
      start |-> MinOf({raw_superset[i].cds_from : i \in 1..Len(raw_superset)}),
      end |-> MaxOf({raw_superset[i].cds_to : i \in 1..Len(raw_superset)}),
      strand |-> any_set.cds_strand,
      secondary_id |-> any_set.gene_id]

\* The Set record of a row; new_set.superset = new_superset gives superset_id.
build_set(raw_set, superset_id) ==
  [id |-> Prefixed(raw_set.chromosome, raw_set.ccds_id),
   contig_id |-> raw_set.chromosome,
   start |-> raw_set.cds_from,
   end |-> raw_set.cds_to,
   strand |-> raw_set.cds_strand,
   superset_id |-> superset_id]

\* <<"ok", interval tuples>>, or the exception parse_raw_intervals raises
\* when the generator of the row's intervals is made.
process_set(raw_set) ==
  LET parsed == parse_raw_intervals(raw_set.cds_locations)
  IN IF parsed[1] = "ok"
     THEN <<"ok", [i \in 1..Len(parsed[2]) |-> build_interval(parsed[2][i], raw_set)]>>
     ELSE parsed

\* What the loop of import_from_ccds carries: the records added to the
\* session and not yet committed, the `last` marks set on intervals that are
\* already committed, the locals added_intervals and new_interval, and the
\* exception that ended the loop ("" while it runs).
EmptySession ==
  [superset |-> {}, set |-> {}, interval |-> {}, interval_set |-> {},
   last_marks |-> {}, bulk |-> 0]

LoopState(session, added_intervals, new_interval) ==
  [session |-> session, added_intervals |-> added_intervals,
   new_interval |-> new_interval, error |-> ""]

\* new_interval before its first assignment, and once it names an interval of
\* the bd_bulk genes.
NoInterval == <<>>

BulkInterval == <<"bulk">>

\* Interval(*interval_data), first set when it opens its set.
IntervalRecord(interval_data, first_interval) ==
  [id |-> interval_data[1], contig_id |-> interval_data[2], start |-> interval_data[3],
   end |-> interval_data[4], strand |-> interval_data[5],
   first |-> first_interval, last |-> FALSE]

\* One pass of the loop over the intervals of a set: an interval already in
\* added_intervals is skipped, link and all.
AddInterval(st, interval_data, set_id, first_interval) ==
  IF interval_data[1] \in st.added_intervals
  THEN st
  ELSE [st EXCEPT
          !.session.interval = @ \cup {IntervalRecord(interval_data, first_interval)},
          !.session.interval_set = @ \cup {<<interval_data[1], set_id>>},
          !.added_intervals = @ \cup {interval_data[1]},
          !.new_interval = interval_data[1]]

RECURSIVE AddIntervals(_, _, _, _)
AddIntervals(st, intervals, set_id, first_interval) ==
  IF intervals = <<>> THEN st
  ELSE AddIntervals(AddInterval(st, Head(intervals), set_id, first_interval),
                    Tail(intervals), set_id, FALSE)

\* new_interval.last = True
MarkLast(st) ==
  IF st.new_interval = NoInterval THEN [st EXCEPT !.error = "UnboundLocalError"]
  ELSE IF st.new_interval = BulkInterval THEN st
  ELSE IF \E iv \in st.session.interval : iv.id = st.new_interval
  THEN [st EXCEPT !.session.interval =
          {IF iv.id = st.new_interval THEN [iv EXCEPT !.last = TRUE] ELSE iv : iv \in @}]
  ELSE [st EXCEPT !.session.last_marks = @ \cup {st.new_interval}]

\* The loop over the sets of a superset; a row that does not parse ends it.
RECURSIVE AddSets(_, _, _)
AddSets(st, raw_sets, superset_id) ==
  IF raw_sets = <<>> \/ st.error # "" THEN st
  ELSE LET raw_set == Head(raw_sets)
           processed == process_set(raw_set)
           new_set == build_set(raw_set, superset_id)
       IN IF processed[1] # "ok" THEN [st EXCEPT !.error = processed[1]]
          ELSE AddSets(
                 MarkLast(AddIntervals([st EXCEPT !.session.set = @ \cup {new_set}],
                                       processed[2], new_set.id, TRUE)),
                 Tail(raw_sets), superset_id)

\* One pass of the loop over processed_supersets, up to the commit test.
AddSuperset(st, raw_superset) ==
  LET new_superset == build_superset(raw_superset)
  IN AddSets([st EXCEPT !.session.superset = @ \cup {new_superset}],
             raw_superset, new_superset.id)

Ids(records) == {r.id : r \in records}

\* The store as one record of its hierarchy tables.
Store(superset, set, interval, interval_set, bulk) ==
  [superset |-> superset, set |-> set, interval |-> interval,
   interval_set |-> interval_set, bulk |-> bulk]

\* session.commit() raises IntegrityError when a record to insert has the
\* primary key of a stored record or of another record to insert.
IntegrityError(store, session) ==
  \/ Ids(session.superset) \cap Ids(store.superset) # {}
  \/ Ids(session.set) \cap Ids(store.set) # {}
  \/ Ids(session.interval) \cap Ids(store.interval) # {}
  \/ Cardinality(Ids(session.superset)) # Cardinality(session.superset)
  \/ Cardinality(Ids(session.set)) # Cardinality(session.set)
  \/ Cardinality(Ids(session.interval)) # Cardinality(session.interval)

Committed_latest_only(store, session) ==
  Store(session.superset, session.set, session.interval, session.interval_set,
        store.bulk + session.bulk)

\* The store after a session.commit() that does not raise.
Committed(store, session) ==
  Store(store.superset \cup session.superset,
        store.set \cup session.set,
        {IF iv.id \in session.last_marks THEN [iv EXCEPT !.last = TRUE] ELSE iv :
           iv \in store.interval} \cup session.interval,
        store.interval_set \cup session.interval_set,
        store.bulk + session.bulk)

EmptyStore == Store({}, {}, {}, {}, 0)

\* The loop of import_from_ccds and the commit after it, with `period` for
\* the 3000 of `count % 3000`: the store it leaves, or the exception raised.
RECURSIVE ImportEvery(_, _, _, _, _)
ImportEvery(period, store, st, groups, count) ==
  IF st.error # "" THEN <<st.error, store>>
  ELSE IF groups = <<>>
  THEN IF IntegrityError(store, st.session) THEN <<"IntegrityError", store>>
       ELSE <<"ok", Committed(store, st.session)>>
  ELSE LET added == AddSuperset(st, Head(groups))
       IN IF added.error = "" /\ count % period = 0
          THEN IF IntegrityError(store, added.session) THEN <<"IntegrityError", store>>
               ELSE ImportEvery(period, Committed(store, added.session),
                                [added EXCEPT !.session = EmptySession],
                                Tail(groups), count + 1)
          ELSE ImportEvery(period, store, added, Tail(groups), count + 1)

\* import_from_ccds run to its end on a table: the store it leaves, or the
\* exception it raises.  Used for the store an earlier build left behind.
ImportGroups(store, st, groups, count) ==
  ImportEvery(CommitEvery, store, st, groups, count)

Public == StatusOrder[1]

raw_supersets(all_sets) ==
  GroupBy(sort_by_columns(filter_by_column(all_sets, Public)))

\* The table of the earlier build of an existing store.
OldTable == <<Row(<<GeneOrder[1], ContigOrder[1]>>, CcdsOrder[1], Public,
                  [cds_from |-> 2, cds_to |-> 3,
                   cds_locations |-> Locations(<<<<2, 3>>>>, <<",", " ">>)])>>

OldStore ==
  ImportGroups(EmptyStore, LoopState(EmptySession, {}, NoInterval),
               raw_supersets(OldTable), 1)[2]

\* No import has run on the store.
NoImport == [sample |-> {}, interval_data |-> <<>>, set_data |-> <<>>, superset_data |-> <<>>]

\* A sample was imported into OldStore: a statistic record on each of its
\* leaves, sets and supersets.
OldImport ==
  LET StatsOn(records) ==
        LET ordered == SetToSeq(records)
        IN [i \in 1..Len(ordered) |->
              DataRecord(ordered[i].id, "s1", "fam1", Rat(10, 1), Rat(1, 1))]
  IN [sample |-> {Sample(AnnotateHeader(DefaultArgs("s1", "fam1")))},
      interval_data |-> StatsOn(OldStore.interval),
      set_data |-> StatsOn(OldStore.set),
      superset_data |-> StatsOn(OldStore.superset)]

\* What build is called on: the store's dialect, whether sql_path is an
\* existing file, the hierarchy the store holds and what was imported into it.
BuildTargets ==
  {[dialect |-> Sqlite, path_exists |-> FALSE, store |-> EmptyStore, imported |-> NoImport],
   [dialect |-> Sqlite, path_exists |-> TRUE, store |-> OldStore, imported |-> OldImport],
   [dialect |-> MysqlConnector, path_exists |-> FALSE, store |-> EmptyStore,
    imported |-> NoImport],
   [dialect |-> MysqlConnector, path_exists |-> FALSE, store |-> OldStore,
    imported |-> OldImport]}

CurrentStore == Store(db_superset, db_set, db_interval, db_interval_set, db_bulk)

\* The eight tables of the store.
StoredTables ==
  [hierarchy |-> CurrentStore, sample |-> db_sample, interval_data |-> db_interval_data,
   set_data |-> db_set_data, superset_data |-> db_superset_data]

tare_down_hierarchy_only(tables) == [tables EXCEPT !.hierarchy = EmptyStore]

\* db.tare_down() and the db.setup() that follows: Base.metadata.drop_all
\* drops every table of the models, create_all creates them empty.
tare_down(tables) ==
  [hierarchy |-> EmptyStore, sample |-> {}, interval_data |-> <<>>, set_data |-> <<>>,
   superset_data |-> <<>>]

BuildInit ==
  /\ bd_table \in Tables
  /\ bd_bulk \in {0, CommitEvery - 1}
  /\ \E target \in BuildTargets :
       /\ bd_dialect = target.dialect
       /\ bd_path_exists = target.path_exists
       /\ db_superset = target.store.superset
       /\ db_set = target.store.set
       /\ db_interval = target.store.interval
       /\ db_interval_set = target.store.interval_set
       /\ db_bulk = target.store.bulk
       /\ db_sample = target.imported.sample
       /\ db_interval_data = target.imported.interval_data
       /\ db_set_data = target.imported.set_data
       /\ db_superset_data = target.imported.superset_data
  /\ bd_force \in BOOLEAN
  /\ bd_pc = "called"
  /\ bd_result = ""
  /\ bd_groups = <<>>
  /\ bd_count = 0
  /\ bd_session = EmptySession
  /\ bd_added = {}
  /\ bd_new_interval = NoInterval
  /\ imp_pc = "off"
  /\ imp_sample = ""
  /\ imp_group = ""
  /\ imp_result = ""

BuildIdle ==
  /\ bd_table = <<>>
  /\ bd_bulk = 0
  /\ bd_dialect = Sqlite
  /\ bd_force = FALSE
  /\ bd_path_exists = FALSE
  /\ bd_pc = "off"
  /\ bd_result = ""
  /\ bd_groups = <<>>
  /\ bd_count = 0
  /\ bd_session = EmptySession
  /\ bd_added = {}
  /\ bd_new_interval = NoInterval
  /\ db_bulk = 0

\* The tables after a commit, or unchanged.
StoreBecomes(store) ==
  /\ db_superset' = store.superset
  /\ db_set' = store.set
  /\ db_interval' = store.interval
  /\ db_interval_set' = store.interval_set
  /\ db_bulk' = store.bulk

\* build raises or returns: the session is dropped with what it holds.
BuildReturns(result) ==
  /\ bd_pc' = "returned"
  /\ bd_result' = result
  /\ bd_session' = EmptySession

\* build up to the loop of import_from_ccds: the test for an existing store,
\* tare_down under force, setup, and the rows read, filtered, sorted, grouped.
BuildCall ==
  /\ bd_pc = "called"
  /\ IF StartsWith(bd_dialect, Mysql) \/ bd_path_exists
     THEN IF bd_force
          THEN /\ LET wiped == tare_down(StoredTables)
                  IN /\ StoreBecomes(wiped.hierarchy)
                     /\ db_sample' = wiped.sample
                     /\ db_interval_data' = wiped.interval_data
                     /\ db_set_data' = wiped.set_data
                     /\ db_superset_data' = wiped.superset_data
               /\ bd_pc' = "loop"
               /\ UNCHANGED <<bd_result, bd_session>>
          ELSE IF bd_dialect = Sqlite
          THEN /\ BuildReturns("EEXIST")
               /\ UNCHANGED <<db_superset, db_set, db_interval, db_interval_set, db_bulk,
                              db_sample, db_interval_data, db_set_data, db_superset_data>>
          ELSE /\ bd_pc' = "loop"
               /\ UNCHANGED <<db_superset, db_set, db_interval, db_interval_set, db_bulk,
                              db_sample, db_interval_data, db_set_data, db_superset_data,
                              bd_result, bd_session>>
     ELSE /\ bd_pc' = "loop"
          /\ UNCHANGED <<db_superset, db_set, db_interval, db_interval_set, db_bulk,
                         db_sample, db_interval_data, db_set_data, db_superset_data,
                         bd_result, bd_session>>
  /\ bd_groups' = IF bd_pc' = "loop" THEN raw_supersets(bd_table) ELSE bd_groups
  /\ bd_count' = IF bd_pc' = "loop" THEN 1 ELSE bd_count
  /\ UNCHANGED <<bd_table, bd_bulk, bd_dialect, bd_force, bd_path_exists, bd_added,
                 bd_new_interval>>
  /\ UNCHANGED <<imp_pc, imp_sample, imp_group, imp_result>>
  /\ UNCHANGED <<calc_vars, gi_vars, pr_vars, an_vars>>

\* The passes of the loop over the bd_bulk genes: each adds a superset, a set
\* and an interval; the passes whose count is a multiple of 3000 commit.  The
\* genes come first in sorted order, so the session holds their records only,
\* which have the key of no stored record: these commits do not raise.
BulkSupersets ==
  /\ bd_pc = "loop"
  /\ bd_bulk > 0
  /\ LET last_count == bd_count + bd_bulk - 1
         last_commit == (last_count \div CommitEvery) * CommitEvery
     IN IF last_commit >= bd_count
        THEN /\ StoreBecomes(Committed(CurrentStore,
                  [bd_session EXCEPT !.bulk = @ + (last_commit - bd_count + 1)]))
             /\ bd_session' = [EmptySession EXCEPT !.bulk = last_count - last_commit]
        ELSE /\ bd_session' = [bd_session EXCEPT !.bulk = @ + bd_bulk]
             /\ UNCHANGED <<db_superset, db_set, db_interval, db_interval_set, db_bulk>>
  /\ bd_count' = bd_count + bd_bulk
  /\ bd_bulk' = 0
  /\ bd_new_interval' = BulkInterval
  /\ UNCHANGED <<bd_table, bd_dialect, bd_force, bd_path_exists, bd_pc, bd_result,
                 bd_groups, bd_added>>
  /\ UNCHANGED <<db_sample, db_interval_data, db_set_data, db_superset_data,
                 imp_pc, imp_sample, imp_group, imp_result>>
  /\ UNCHANGED <<calc_vars, gi_vars, pr_vars, an_vars>>

\* One pass of the loop over processed_supersets: the superset, its sets and
\* their intervals are added; every 3000th pass commits.
ImportSuperset ==
  /\ bd_pc = "loop"
  /\ bd_bulk = 0
  /\ bd_groups # <<>>
  /\ LET st == AddSuperset(LoopState(bd_session, bd_added, bd_new_interval),
                           Head(bd_groups))
     IN /\ bd_added' = st.added_intervals
        /\ bd_new_interval' = st.new_interval
        /\ IF st.error # ""
           THEN /\ BuildReturns(st.error)
                /\ UNCHANGED <<db_superset, db_set, db_interval, db_interval_set, db_bulk>>
           ELSE IF bd_count % CommitEvery = 0
           THEN IF IntegrityError(CurrentStore, st.session)
                THEN /\ BuildReturns("False")
                     /\ UNCHANGED <<db_superset, db_set, db_interval, db_interval_set,
                                    db_bulk>>
                ELSE /\ StoreBecomes(Committed(CurrentStore, st.session))
                     /\ bd_session' = EmptySession
                     /\ UNCHANGED <<bd_pc, bd_result>>
           ELSE /\ bd_session' = st.session
                /\ UNCHANGED <<db_superset, db_set, db_interval, db_interval_set, db_bulk,
                               bd_pc, bd_result>>
  /\ bd_count' = IF bd_pc' = "returned" THEN bd_count ELSE bd_count + 1
  /\ bd_groups' = Tail(bd_groups)
  /\ UNCHANGED <<bd_table, bd_bulk, bd_dialect, bd_force, bd_path_exists>>
  /\ UNCHANGED <<db_sample, db_interval_data, db_set_data, db_superset_data,
                 imp_pc, imp_sample, imp_group, imp_result>>
  /\ UNCHANGED <<calc_vars, gi_vars, pr_vars, an_vars>>

\* The commit after the loop; build returns True, or False on IntegrityError.
FinalCommit ==
  /\ bd_pc = "loop"
  /\ bd_bulk = 0
  /\ bd_groups = <<>>
  /\ IF IntegrityError(CurrentStore, bd_session)
     THEN /\ BuildReturns("False")
          /\ UNCHANGED <<db_superset, db_set, db_interval, db_interval_set, db_bulk>>
     ELSE /\ StoreBecomes(Committed(CurrentStore, bd_session))
          /\ BuildReturns("True")
  /\ UNCHANGED <<bd_table, bd_bulk, bd_dialect, bd_force, bd_path_exists, bd_groups,
                 bd_count, bd_added, bd_new_interval>>
  /\ UNCHANGED <<db_sample, db_interval_data, db_set_data, db_superset_data,
                 imp_pc, imp_sample, imp_group, imp_result>>
  /\ UNCHANGED <<calc_vars, gi_vars, pr_vars, an_vars>>

-----------------------------------------------------------------------------
(* chanjo/core.py, chanjo/utils.py: annotate *)

\* for chromosome in range(1, 24): yield prepend + str(chromosome); then
\* prepend + 'X' and prepend + 'Y'.  No custom ids are given by annotate.
get_chromosomes(prepend) ==
  [i \in 1..25 |->
     prepend \o (IF i <= 23 THEN NatStr(i) ELSE IF i = 24 THEN <<"X">> ELSE <<"Y">>)]

\* filter_by(contig_id=contig_id).order_by(interval.start).all(): the rows
\* (start, end, id) of table interval alone.
RECURSIVE OrderedByStart(_)
OrderedByStart(rows) ==
  IF rows = {} THEN <<>>
  ELSE LET lowest == CHOOSE r \in rows : \A other \in rows : r.start <= other.start
       IN <<<<lowest.start, lowest.end, lowest.id>>>> \o OrderedByStart(rows \ {lowest})

get_intervals(contig_id) ==
  OrderedByStart({iv \in db_interval : iv.contig_id = contig_id})

\* The groups the generator group_intervals yields, in order.
RECURSIVE GroupRest(_, _, _, _, _, _)
GroupRest(rest, group, iStart, iEnd, threshold, extension) ==
  IF rest = <<>> THEN <<group>>
  ELSE LET w == Widened(Head(rest), extension)
           widest == Max(iEnd, w[2])
       IN IF BigEnough(iStart, widest, threshold)
          THEN <<group>> \o GroupRest(Tail(rest), NewGroup(w), w[1], w[2], threshold,
                                      extension)
          ELSE GroupRest(Tail(rest), Append(group, w), iStart, widest, threshold,
                         extension)

group_intervals(intervals, threshold, extension) ==
  IF intervals = <<>> THEN <<>>
  ELSE GroupRest(Tail(intervals), FirstGroup(intervals[1], extension),
                 intervals[1][1], intervals[1][2], threshold, extension)

\* return intervals[0][0], intervals[-1][1]; (0, 0) on IndexError.
merge_intervals(intervals) ==
  IF intervals = <<>> THEN <<0, 0>>
  ELSE <<intervals[1][1], intervals[Len(intervals)][2]>>

\* rel_start = abs_start - overall_start; rel_end = abs_end - overall_start
assign_relative_positions(abs_start, abs_end, overall_start) ==
  <<abs_start - overall_start, abs_end - overall_start>>

\* a[lo:hi] for 0 <= lo: the elements at offsets lo .. hi - 1 that exist.
PySlice(a, lo, hi) ==
  IF hi <= Len(a) THEN SubSeq(a, lo + 1, hi) ELSE SubSeq(a, lo + 1, Len(a))

\* coverage_source.read(contig_id, start, end) raises ValueError: for a contig
\* the source does not hold and for position 0.
ReadRaises(source, contig_id, start) == contig_id \notin source.contigs \/ start < 1

\* coverage_source.read(contig_id, start, end): one depth per position
\* start..end, 0 where no read is aligned.
read(source, contig_id, start, end) ==
  [i \in 1..(end - start + 1) |->
     IF start + i - 1 <= Len(source.depths) THEN source.depths[start + i - 1] ELSE 0]

\* The lines annotate_inverval_group writes for a group, given read_depths.
GroupLines(interval_group, depths, threshold) ==
  LET overall_start == merge_intervals(interval_group)[1]
      Line(interval) ==
        LET rel == assign_relative_positions(interval[1], interval[2], overall_start)
            values == calculate_values(PySlice(depths, rel[1], rel[2] + 1), threshold)
        IN DataLine(interval[3], values[1], values[2])
  IN [i \in 1..Len(interval_group) |-> Line(interval_group[i])]

\* The leaves of the annotate runs, by stored coordinates.
AnnotateLeaf(id, contig_id) ==
  CASE id = "e1" -> [id |-> "e1", contig_id |-> contig_id, start |-> 2, end |-> 5]
    [] id = "e2" -> [id |-> "e2", contig_id |-> contig_id, start |-> 3, end |-> 4]
    [] id = "e3" -> [id |-> "e3", contig_id |-> contig_id, start |-> 7, end |-> 8]

\* Built stores: leaf e1 belongs to both sets; e3 lies on contig 1 or on X.
AnnotateStores ==
  {[interval |-> {AnnotateLeaf("e1", <<"1">>), AnnotateLeaf("e2", <<"1">>),
                  AnnotateLeaf("e3", contig_id)},
    interval_set |-> {<<"e1", "t1">>, <<"e2", "t1">>, <<"e1", "t2">>, <<"e3", "t2">>},
    set |-> {[id |-> "t1", superset_id |-> "g1"], [id |-> "t2", superset_id |-> parent]}] :
     contig_id \in {<<"1">>, <<"X">>}, parent \in {"g1"}}

Chr == <<"c", "h", "r">>

\* Depth sources: contigs named with or without 'chr'; the first depths of
\* the fixture of test_read, or three positions.
DepthSources ==
  {[contigs |-> {prefix \o name : name \in SequenceRange(get_chromosomes(<<>>))},
    depths |-> depths] :
     prefix \in {<<>>, Chr}, depths \in {<<2, 4, 5, 5, 5, 5, 6, 7, 7>>, <<12, 0, 3>>}}

AnnotateArgs ==
  [sample_id : {"s1"}, group_id : {"fam1"}, cutoff : {5, DefaultCutoff},
   bam_path : {<<"align.bam">>}, sql_path : {<<"/", "data", "store.sqlite">>},
   extension : 0..MaxExtension, prepend : {<<>>, Chr},
   bp_threshold : {1, MaxThreshold, DefaultThreshold}]

AnnotateInit ==
  /\ \E built \in AnnotateStores :
       /\ db_superset = {[id |-> t.superset_id] : t \in built.set}
       /\ db_interval = built.interval
       /\ db_interval_set = built.interval_set
       /\ db_set = built.set
  /\ db_sample = {}
  /\ db_interval_data = <<>>
  /\ db_set_data = <<>>
  /\ db_superset_data = <<>>
  /\ imp_pc = "idle"
  /\ imp_sample = ""
  /\ imp_group = ""
  /\ imp_result = ""
  /\ an_args \in AnnotateArgs
  /\ an_source \in DepthSources
  /\ an_pc = "called"
  /\ an_contigs = <<>>
  /\ an_contig_id = <<>>
  /\ an_groups = <<>>
  /\ an_depths = <<>>
  /\ an_out = <<>>
  /\ an_reads = <<>>
  /\ an_result = ""

AnnotateIdle ==
  /\ an_args = <<>>
  /\ an_source = <<>>
  /\ an_pc = "off"
  /\ an_contigs = <<>>
  /\ an_contig_id = <<>>
  /\ an_groups = <<>>
  /\ an_depths = <<>>
  /\ an_out = <<>>
  /\ an_reads = <<>>
  /\ an_result = ""

\* The header is written; contig_ids = list(get_chromosomes(prepend=prepend)).
AnnotateCall ==
  /\ an_pc = "called"
  /\ an_out' = <<HeaderLine(AnnotateHeader(an_args))>>
  /\ an_contigs' = get_chromosomes(an_args.prepend)
  /\ an_pc' = "contigs"
  /\ UNCHANGED <<an_args, an_source, an_contig_id, an_groups, an_depths, an_reads,
                 an_result>>
  /\ UNCHANGED <<calc_vars, gi_vars, pr_vars, db_vars, bd_vars>>

\* One pass of `for contig_id, contig_group in zip(contig_ids,
\* grouped_intervals)`: the store is queried with contig_id and the batcher is
\* set up on the rows.
AnnotateContig ==
  /\ an_pc = "contigs"
  /\ an_contigs # <<>>
  /\ an_contig_id' = Head(an_contigs)
  /\ an_contigs' = Tail(an_contigs)
  /\ an_groups' = group_intervals(get_intervals(Head(an_contigs)), an_args.bp_threshold,
                                  an_args.extension)
  /\ an_pc' = IF an_groups' = <<>> THEN "contigs" ELSE "read"
  /\ UNCHANGED <<an_args, an_source, an_depths, an_out, an_reads, an_result>>
  /\ UNCHANGED <<calc_vars, gi_vars, pr_vars, db_vars, bd_vars>>

\* annotate_inverval_group up to coverage_source.read for the next group of
\* the batcher; a ValueError of the source ends annotate.
AnnotateRead ==
  /\ an_pc = "read"
  /\ LET span == merge_intervals(Head(an_groups))
         depths == read(an_source, an_contig_id, span[1], span[2])
     IN IF ReadRaises(an_source, an_contig_id, span[1])
        THEN /\ an_result' = "ValueError"
             /\ an_pc' = "returned"
             /\ UNCHANGED <<an_depths, an_reads>>
        ELSE /\ an_depths' = depths
             /\ an_reads' = Append(an_reads,
                  [contig_id |-> an_contig_id, start |-> span[1], end |-> span[2],
                   written |-> Len(an_out)])
             /\ an_pc' = "group"
             /\ UNCHANGED an_result
  /\ UNCHANGED <<an_args, an_source, an_contigs, an_contig_id, an_groups, an_out>>
  /\ UNCHANGED <<calc_vars, gi_vars, pr_vars, db_vars, bd_vars>>

AnnotateWrite_one_read ==
  /\ an_pc = "group"
  /\ LET RECURSIVE LinesOf(_)
         LinesOf(groups) ==
           IF groups = <<>> THEN <<>>
           ELSE GroupLines(Head(groups), an_depths, an_args.cutoff) \o LinesOf(Tail(groups))
     IN an_out' = an_out \o LinesOf(an_groups)
  /\ an_groups' = <<>>
  /\ an_pc' = "contigs"
  /\ UNCHANGED <<an_args, an_source, an_contigs, an_contig_id, an_depths, an_reads,
                 an_result>>
  /\ UNCHANGED <<calc_vars, gi_vars, pr_vars, db_vars, bd_vars>>

\* annotate_inverval_group after the read: one line per interval of the
\* group; then the batcher is asked for its next group.
AnnotateWrite ==
  /\ an_pc = "group"
  /\ an_out' = an_out \o GroupLines(Head(an_groups), an_depths, an_args.cutoff)
  /\ an_groups' = Tail(an_groups)
  /\ an_pc' = IF an_groups' = <<>> THEN "contigs" ELSE "read"
  /\ UNCHANGED <<an_args, an_source, an_contigs, an_contig_id, an_depths, an_reads,
                 an_result>>
  /\ UNCHANGED <<calc_vars, gi_vars, pr_vars, db_vars, bd_vars>>

\* contig_ids is exhausted: return 0.
AnnotateReturn ==
  /\ an_pc = "contigs"
  /\ an_contigs = <<>>
  /\ an_result' = "0"
  /\ an_pc' = "returned"
  /\ UNCHANGED <<an_args, an_source, an_contigs, an_contig_id, an_groups, an_depths,
                 an_out, an_reads>>
  /\ UNCHANGED <<calc_vars, gi_vars, pr_vars, db_vars, bd_vars>>

-----------------------------------------------------------------------------
(* The specifications *)

InitCalc == CalcInit /\ GroupIdle /\ ParseIdle /\ StoreIdle /\ BuildIdle /\ AnnotateIdle

SpecCalc == InitCalc /\ [][CalculateValues]_vars

InitGroup == GroupInit /\ CalcIdle /\ ParseIdle /\ StoreIdle /\ BuildIdle /\ AnnotateIdle

GroupNext == GroupBegin \/ GroupStep \/ GroupEnd

SpecGroup == InitGroup /\ [][GroupNext]_vars

InitParse == ParseInit /\ CalcIdle /\ GroupIdle /\ StoreIdle /\ BuildIdle /\ AnnotateIdle

SpecParse == InitParse /\ [][ProcessSet]_vars

InitRollup == StoreInit /\ CalcIdle /\ GroupIdle /\ ParseIdle /\ BuildIdle /\ AnnotateIdle

ImportNext == ImportLeaves \/ ExtendSets \/ ExtendSupersets

SpecRollup == InitRollup /\ [][ImportNext]_vars

InitBuild == BuildInit /\ CalcIdle /\ GroupIdle /\ ParseIdle /\ AnnotateIdle

BuildNext == BuildCall \/ BulkSupersets \/ ImportSuperset \/ FinalCommit

SpecBuild == InitBuild /\ [][BuildNext]_vars

InitAnnotate == AnnotateInit /\ CalcIdle /\ GroupIdle /\ ParseIdle /\ BuildIdle

AnnotateNext ==
  \/ AnnotateCall \/ AnnotateContig \/ AnnotateRead \/ AnnotateWrite \/ AnnotateReturn
  \/ ImportLeaves \/ ExtendSets \/ ExtendSupersets

SpecAnnotate == InitAnnotate /\ [][AnnotateNext]_vars

-----------------------------------------------------------------------------
(* Claims about the depth reducer, checked under SpecCalc *)

DepthTotal(depths) ==
  LET RECURSIVE Upto(_)
      Upto(i) == IF i = 0 THEN 0 ELSE depths[i] + Upto(i - 1)
  IN Upto(Len(depths))

PassedPositions(depths, threshold) ==
  {i \in 1..Len(depths) : ~(depths[i] < threshold)}

C4_EmptySliceIsZero ==
  (calc_pc = "done" /\ Len(read_depths) = 0) =>
    /\ calc_result[1] = Rat(0, 1)
    /\ calc_result[2] = Rat(0, 1)

-----------------------------------------------------------------------------
(* Claims about the interval batcher, checked under SpecGroup *)

RECURSIVE Flatten(_)
Flatten(groups) ==
  IF groups = <<>> THEN <<>> ELSE Head(groups) \o Flatten(Tail(groups))

\* The input with every interval widened by the extension.
WidenedInput ==
  [i \in 1..Len(gi_intervals) |->
     <<gi_intervals[i][1] - gi_extension, gi_intervals[i][2] + gi_extension,
       gi_intervals[i][3]>>]

LargestEnd(g) == CHOOSE m \in {g[i][2] : i \in 1..Len(g)} :
                   \A i \in 1..Len(g) : g[i][2] <= m

\* The combined span of a group, measured on its tuples.
TupleSpan(g) == LargestEnd(g) - g[1][1]

C7_GroupSpanWithinThreshold ==
  gi_pc = "done" =>
    \A k \in 1..Len(gi_out) :
      Len(gi_out[k]) >= 2 => TupleSpan(gi_out[k]) <= gi_threshold

\* C8: an interval whose widened width exceeds the threshold is in exactly
\* one group and that group holds no other interval, wherever it stands in
\* the input.
C8_WideIntervalAlone ==
  gi_pc = "done" =>
    \A i \in 1..Len(gi_intervals) :
      (WidenedInput[i][2] - WidenedInput[i][1] > gi_threshold) =>
        /\ Cardinality({k \in 1..Len(gi_out) :
                          \E j \in 1..Len(gi_out[k]) : gi_out[k][j][3] = i}) = 1
        /\ \E k \in 1..Len(gi_out) : gi_out[k] = <<WidenedInput[i]>>

\* A way of cutting the widened list into consecutive groups: the set of
\* positions after which a group ends.  It is admissible when every group
\* of two or more intervals has a combined span of at most the threshold.
Admissible(cuts) ==
  LET n == Len(gi_intervals)
      W == WidenedInput
      IsFirst(a) == a = 1 \/ (a - 1) \in cuts
      IsLast(b) == b = n \/ b \in cuts
      SameGroup(a, b) == \A c \in a..(b - 1) : c \notin cuts
  IN \A a \in 1..n : \A b \in (a + 1)..n :
       (IsFirst(a) /\ IsLast(b) /\ SameGroup(a, b)) =>
         TupleSpan(SubSeq(W, a, b)) <= gi_threshold

\* C9: no admissible cutting uses fewer groups than group_intervals yields,
\* and a group is closed only when the next interval would push its combined
\* span strictly above the threshold.
C9_FewestGroups ==
  (gi_pc = "done" /\ Len(gi_intervals) > 0) =>
    /\ \A cuts \in SUBSET (1..(Len(gi_intervals) - 1)) :
         Admissible(cuts) => Cardinality(cuts) + 1 >= Len(gi_out)
    /\ \A k \in 1..(Len(gi_out) - 1) :
         TupleSpan(Append(gi_out[k], gi_out[k + 1][1])) > gi_threshold

C9_Witness ==
  /\ gi_pc = "done"
  /\ Len(gi_out) = 2
  /\ \E k \in 1..Len(gi_out) :
       Len(gi_out[k]) = 2 /\ TupleSpan(gi_out[k]) = gi_threshold

-----------------------------------------------------------------------------
(* Claims about the hierarchy builder's leaves, checked under SpecParse *)

\* C10: a pair 'a-b' of a row on contig c yields a leaf with start a, end b
\* and identifier 'c-a-b', the leaves coming in the written order.
C10_LeavesKeepWrittenCoordinates ==
  (pr_pc = "done") =>
    /\ Len(pr_leaves) = Len(pr_written)
    /\ \A i \in 1..Len(pr_written) :
         /\ pr_leaves[i][3] = pr_written[i][1]
         /\ pr_leaves[i][4] = pr_written[i][2]
         /\ pr_leaves[i][1] = pr_row.chromosome \o <<"-">> \o IntStr(pr_written[i][1])
                                \o <<"-">> \o IntStr(pr_written[i][2])

-----------------------------------------------------------------------------
(* Claims about the rollup queries, checked under SpecRollup *)

\* The leaves linked to a mid-level feature that have a statistic for the
\* sample.
LeavesWithStat(set_id, sample_id) ==
  {iv \in db_interval :
     /\ <<iv.id, set_id>> \in db_interval_set
     /\ \E k \in 1..Len(db_interval_data) :
          /\ db_interval_data[k].parent_id = iv.id
          /\ db_interval_data[k].sample_id = sample_id}

\* The statistic of a leaf for a sample.
LeafStat(iv, sample_id) ==
  db_interval_data[CHOOSE k \in 1..Len(db_interval_data) :
                     /\ db_interval_data[k].parent_id = iv.id
                     /\ db_interval_data[k].sample_id = sample_id]

Bases(iv) == Cardinality(iv.start..iv.end)

RECURSIVE TotalBases(_)
TotalBases(leaves) ==
  IF leaves = {} THEN 0
  ELSE LET iv == CHOOSE x \in leaves : TRUE
       IN Bases(iv) + TotalBases(leaves \ {iv})

\* Sum over the leaves of (bases of the leaf) * (its coverage or completeness).
RECURSIVE WeightedTotal(_, _, _)
WeightedTotal(leaves, sample_id, column) ==
  IF leaves = {} THEN Rat(0, 1)
  ELSE LET iv == CHOOSE x \in leaves : TRUE
       IN RatAdd(RatMul(Rat(Bases(iv), 1), LeafStat(iv, sample_id)[column]),
                 WeightedTotal(leaves \ {iv}, sample_id, column))

\* C1: for every sample, set_stats returns one row for each mid-level
\* feature that has a leaf with a statistic for the sample, and its coverage
\* (completeness) times the summed length of those leaves equals the sum of
\* length times coverage (completeness) over them, with length = end -
\* start + 1.
C1_LeafRollupIsLengthWeighted ==
  \A sample_id \in SampleIds :
    LET stats == set_stats(sample_id)
    IN /\ {stats[i][1] : i \in 1..Len(stats)} =
            {t \in SequenceRange(SetOrder) : LeavesWithStat(t, sample_id) # {}}
       /\ \A i, j \in 1..Len(stats) : stats[i][1] = stats[j][1] => i = j
       /\ \A i \in 1..Len(stats) :
            LET leaves == LeavesWithStat(stats[i][1], sample_id)
                total == Rat(TotalBases(leaves), 1)
            IN /\ RatMul(stats[i][2], total) = WeightedTotal(leaves, sample_id, "coverage")
               /\ RatMul(stats[i][3], total) = WeightedTotal(leaves, sample_id, "completeness")

\* Leaves of length 10 and 90 with coverage 100 and 0 roll up to 10, while
\* another sample has other statistics on the same leaves.
C1_Witness ==
  /\ db_interval = ExampleStore.interval
  /\ LeavesWithStat("t1", "s1") = {Leaf("e1"), Leaf("e2")}
  /\ LeafStat(Leaf("e1"), "s1").coverage = <<100, 1>>
  /\ LeafStat(Leaf("e2"), "s1").coverage = <<0, 1>>
  /\ LeavesWithStat("t1", "s2") = {Leaf("e2")}
  /\ \E i \in 1..Len(set_stats("s1")) :
       set_stats("s1")[i] = <<"t1", <<10, 1>>, <<1, 20>>>>
  /\ \E i \in 1..Len(db_set_data) :
       db_set_data[i] = DataRecord("t1", "s1", "fam1", <<10, 1>>, <<1, 20>>)

\* The mid-level statistic records of a sample under a top-level feature.
SetStatsUnder(superset_id, sample_id) ==
  {k \in 1..Len(db_set_data) :
     /\ db_set_data[k].sample_id = sample_id
     /\ \E t \in db_set : t.id = db_set_data[k].parent_id /\ t.superset_id = superset_id}

RECURSIVE ColumnTotal(_, _)
ColumnTotal(ks, column) ==
  IF ks = {} THEN Rat(0, 1)
  ELSE LET k == CHOOSE x \in ks : TRUE
       IN RatAdd(db_set_data[k][column], ColumnTotal(ks \ {k}, column))

\* C2: for every sample, superset_stats returns one row for each top-level
\* feature that has a mid-level statistic record of the sample under it, and
\* its coverage (completeness) times the number of those records equals the
\* plain sum of their coverage (completeness).
C2_SetRollupIsUnweighted ==
  \A sample_id \in SampleIds :
    LET stats == superset_stats(sample_id)
    IN /\ {stats[i][1] : i \in 1..Len(stats)} =
            {g \in SequenceRange(SupersetOrder) : SetStatsUnder(g, sample_id) # {}}
       /\ \A i, j \in 1..Len(stats) : stats[i][1] = stats[j][1] => i = j
       /\ \A i \in 1..Len(stats) :
            LET ks == SetStatsUnder(stats[i][1], sample_id)
                count == Rat(Cardinality(ks), 1)
            IN /\ RatMul(stats[i][2], count) = ColumnTotal(ks, "coverage")
               /\ RatMul(stats[i][3], count) = ColumnTotal(ks, "completeness")

\* Mid-level features of 100 and 900 bases with coverage 10 and 90 give 50.
C2_Witness ==
  /\ db_interval = ExampleStore.interval
  /\ SetLen("t1") = 100 /\ SetLen("t2") = 900
  /\ \E i, j \in 1..Len(db_set_data) :
       /\ db_set_data[i].sample_id = "s1" /\ db_set_data[i].parent_id = "t1"
       /\ db_set_data[i].coverage = <<10, 1>>
       /\ db_set_data[j].sample_id = "s1" /\ db_set_data[j].parent_id = "t2"
       /\ db_set_data[j].coverage = <<90, 1>>
  /\ Cardinality(SetStatsUnder("g1", "s1")) = 2
  /\ \E i \in 1..Len(db_superset_data) :
       /\ db_superset_data[i].sample_id = "s1"
       /\ db_superset_data[i].parent_id = "g1"
       /\ db_superset_data[i].coverage = <<50, 1>>
  /\ \E i \in 1..Len(db_set_data) : db_set_data[i].sample_id = "s2"

-----------------------------------------------------------------------------
(* Claims about the hierarchy builder, checked under SpecBuild *)

BuildSucceeded == bd_pc = "returned" /\ bd_result = "True"

PublicRows ==
  {bd_table[i] : i \in {k \in 1..Len(bd_table) : bd_table[k].ccds_status = "Public"}}

\* The id the store gives the mid-level feature of a row.
SetIdOf(row) ==
  IF row.chromosome \in {<<"X">>, <<"Y">>}
  THEN row.chromosome \o <<"-">> \o row.ccds_id
  ELSE row.ccds_id

\* The ids of the leaves listed in the coordinate string of a row.
LeafIdsOf(row) ==
  LET leaves == process_set(row)
  IN IF leaves[1] = "ok" THEN {leaves[2][i][1] : i \in 1..Len(leaves[2])} ELSE {}

\* C11: after a build, a leaf listed in the coordinate strings of two
\* mid-level rows is stored exactly once and is linked to the mid-level
\* feature of each of the two rows.
C11_SharedLeafLinkedToEveryRow ==
  BuildSucceeded =>
    \A r1 \in PublicRows : \A r2 \in PublicRows \ {r1} :
      \A id \in LeafIdsOf(r1) \cap LeafIdsOf(r2) :
        /\ Cardinality({iv \in db_interval : iv.id = id}) = 1
        /\ <<id, SetIdOf(r1)>> \in db_interval_set
        /\ <<id, SetIdOf(r2)>> \in db_interval_set

RowsOn(gene, chromosome) ==
  {r \in PublicRows : r.gene = gene /\ r.chromosome = chromosome}

\* The id the store gives the top-level feature of a row.
SupersetIdOf(row) ==
  IF row.chromosome \in {<<"X">>, <<"Y">>}
  THEN row.chromosome \o <<"-">> \o row.gene
  ELSE row.gene

\* The gene of the row also lies on another contig, one of the two a sex contig.
OnTwoContigs(row) ==
  \E o \in PublicRows :
    /\ o.gene = row.gene
    /\ o.chromosome # row.chromosome
    /\ row.chromosome \in {<<"X">>, <<"Y">>} \/ o.chromosome \in {<<"X">>, <<"Y">>}

\* C12: when a gene lies on two contigs, one of them a sex contig, the build
\* stores one top-level feature per contig, named '<contig>-<gene>' on a sex
\* contig, with that contig and the span of that contig's rows only, and the
\* mid-level feature of each row has the top-level feature of its own contig
\* as parent.
C12_SexContigRowsKeptApart ==
  BuildSucceeded =>
    \A r \in PublicRows :
      OnTwoContigs(r) =>
        LET own == RowsOn(r.gene, r.chromosome)
        IN /\ \E g \in db_superset :
                /\ g.id = SupersetIdOf(r)
                /\ g.contig_id = r.chromosome
                /\ \A q \in own : g.start <= q.cds_from /\ q.cds_to <= g.end
                /\ \E q \in own : g.start = q.cds_from
                /\ \E q \in own : g.end = q.cds_to
           /\ \E t \in db_set :
                t.id = SetIdOf(r) /\ t.superset_id = SupersetIdOf(r)

\* The store held no record when the loop of the build began.
FreshBuild == bd_force \/ (bd_dialect = Sqlite /\ ~bd_path_exists)

\* C13: at every point of a build on an empty store, every stored top-level,
\* mid-level and leaf record and every link comes from a row whose status is
\* 'Public', and so does every start and end of a top-level record.
C13_OnlyPublicRowsContribute ==
  (FreshBuild /\ bd_pc \in {"loop", "returned"}) =>
    /\ \A t \in db_set : \E r \in PublicRows :
         /\ t.id = SetIdOf(r)
         /\ t.contig_id = r.chromosome
         /\ t.start = r.cds_from
         /\ t.end = r.cds_to
    /\ \A iv \in db_interval : \E r \in PublicRows :
         iv.id \in LeafIdsOf(r) /\ iv.contig_id = r.chromosome
    /\ \A l \in db_interval_set : \E r \in PublicRows :
         l[1] \in LeafIdsOf(r) /\ l[2] = SetIdOf(r)
    /\ \A g \in db_superset : \E r \in PublicRows :
         /\ g.id = SupersetIdOf(r) /\ g.contig_id = r.chromosome
         /\ \E q \in PublicRows : q.gene = r.gene /\ g.start = q.cds_from
         /\ \E q \in PublicRows : q.gene = r.gene /\ g.end = q.cds_to

\* A build has stored the hierarchy of a table that holds a Public row and,
\* for the same gene and on the same contig, a row of another status with
\* another span.
C13_Witness ==
  /\ BuildSucceeded /\ FreshBuild
  /\ db_set # {}
  /\ \E i, j \in 1..Len(bd_table) :
       /\ bd_table[i].ccds_status = "Public"
       /\ bd_table[j].ccds_status # "Public"
       /\ bd_table[i].gene = bd_table[j].gene
       /\ bd_table[i].chromosome = bd_table[j].chromosome
       /\ bd_table[j].cds_from < bd_table[i].cds_from

ChildrenOf(superset_id) == {t \in db_set : t.superset_id = superset_id}

\* C14: every stored top-level feature has mid-level features under it, its
\* start is the least of their starts and its end the greatest of their
\* ends, and so each of them lies inside it.
C14_SupersetSpansItsSets ==
  \A g \in db_superset :
    LET children == ChildrenOf(g.id)
    IN /\ children # {}
       /\ \A t \in children : g.start <= t.start /\ t.end <= g.end
       /\ \E t \in children : t.start = g.start
       /\ \E t \in children : t.end = g.end

\* A build has stored a top-level feature whose start comes from one
\* mid-level feature and whose end comes from another.
C14_Witness ==
  /\ BuildSucceeded
  /\ \E g \in db_superset : \E t1, t2 \in ChildrenOf(g.id) :
       /\ t1.start = g.start /\ t1.end < g.end
       /\ t2.end = g.end /\ t2.start > g.start

\* The (start, end) pairs as they are written in a coordinate string that
\* parses.
PairsWrittenIn(text) ==
  LET items == Split(SelectSeq(SubSeq(text, 2, Len(text) - 1), LAMBDA c : c # " "), ",")
  IN {<<IntOf(Split(items[i], "-")[1]), IntOf(Split(items[i], "-")[2])>> :
        i \in 1..Len(items)}

\* The row's start and end columns are the smallest start and the largest end
\* of its coordinate string.
SpanMatchesString(row) ==
  /\ process_set(row)[1] = "ok"
  /\ \A p \in PairsWrittenIn(row.cds_locations) : row.cds_from <= p[1] /\ p[2] <= row.cds_to
  /\ \E p \in PairsWrittenIn(row.cds_locations) : row.cds_from = p[1]
  /\ \E p \in PairsWrittenIn(row.cds_locations) : row.cds_to = p[2]

LeavesLinkedTo(set_id) == {iv \in db_interval : <<iv.id, set_id>> \in db_interval_set}

\* C15: after a build, the mid-level feature of a row whose start and end
\* columns match its coordinate string has leaves linked to it, and its start
\* is the least of their starts and its end the greatest of their ends.
C15_SetSpansItsLeaves ==
  BuildSucceeded =>
    \A r \in PublicRows :
      SpanMatchesString(r) =>
        \A t \in {s \in db_set : s.id = SetIdOf(r)} :
          LET leaves == LeavesLinkedTo(t.id)
          IN /\ leaves # {}
             /\ \A iv \in leaves : t.start <= iv.start /\ iv.end <= t.end
             /\ \E iv \in leaves : iv.start = t.start
             /\ \E iv \in leaves : iv.end = t.end

\* C16: when a build on an empty store ends with the error of a coordinate
\* string that does not parse, the store holds no record.
C16_FailedBuildLeavesNothing ==
  (FreshBuild /\ bd_pc = "returned" /\ bd_result \in {"ValueError", "IndexError"}) =>
    CurrentStore = EmptyStore

\* The store holds a leaf that this call of build did not add: it held the
\* hierarchy of an earlier build when build was called.
HoldsEarlierBuild == \E iv \in db_interval : iv.id \notin bd_added

\* C17: a build without force on a store that holds the hierarchy of an
\* earlier build ends with EEXIST or False, and every record of the earlier
\* build is stored as it was, for sqlite and for mysql dialects.
C17_ExistingStoreNeedsForce ==
  (bd_pc = "returned" /\ ~bd_force /\ HoldsEarlierBuild) =>
    /\ bd_result \in {"EEXIST", "False"}
    /\ OldStore.superset \subseteq db_superset
    /\ OldStore.set \subseteq db_set
    /\ OldStore.interval \subseteq db_interval
    /\ OldStore.interval_set \subseteq db_interval_set

-----------------------------------------------------------------------------
(* Claims about import_data and extend_annotations, checked under SpecRollup *)

\* import_data has returned for the sample.
ImportDone(sample_id) ==
  /\ \E smp \in db_sample : smp.id = sample_id
  /\ imp_pc = "idle" \/ imp_sample # sample_id

ZeroRecordIn(table, parent_id, sample_id) ==
  \E k \in 1..Len(table) :
    /\ table[k].parent_id = parent_id
    /\ table[k].sample_id = sample_id
    /\ table[k].coverage = <<0, 1>>
    /\ table[k].completeness = <<0, 1>>

\* C18: once a sample is imported, a mid-level feature none of whose leaves
\* has a statistic of the sample has a mid-level statistic record of the
\* sample with coverage 0 and completeness 0, and a top-level feature with no
\* mid-level statistic of the sample under it has such a top-level record.
C18_EmptyRollupIsZero ==
  \A sample_id \in SampleIds :
    ImportDone(sample_id) =>
      /\ \A t \in db_set :
           LeavesWithStat(t.id, sample_id) = {} => ZeroRecordIn(db_set_data, t.id, sample_id)
      /\ \A g \in db_superset :
           SetStatsUnder(g.id, sample_id) = {} =>
             ZeroRecordIn(db_superset_data, g.id, sample_id)

IsPrefix(s, t) == Len(s) <= Len(t) /\ SubSeq(t, 1, Len(s)) = s

\* A step leaves the hierarchy and every stored Sample and statistic record
\* as they are; it may add records.
OnlyCreatesRecords ==
  /\ db_superset' = db_superset
  /\ db_set' = db_set
  /\ db_interval' = db_interval
  /\ db_interval_set' = db_interval_set
  /\ db_sample \subseteq db_sample'
  /\ IsPrefix(db_interval_data, db_interval_data')
  /\ IsPrefix(db_set_data, db_set_data')
  /\ IsPrefix(db_superset_data, db_superset_data')

\* The rollup records of an imported sample follow from the hierarchy and the
\* leaf statistics of that sample alone.
RollupFromOwnLeaves ==
  \A sample_id \in SampleIds :
    ImportDone(sample_id) =>
      /\ \A k \in 1..Len(db_set_data) :
           db_set_data[k].sample_id = sample_id =>
             LET leaves == LeavesWithStat(db_set_data[k].parent_id, sample_id)
                 total == Rat(TotalBases(leaves), 1)
             IN /\ leaves # {}
                /\ RatMul(db_set_data[k].coverage, total) =
                     WeightedTotal(leaves, sample_id, "coverage")
                /\ RatMul(db_set_data[k].completeness, total) =
                     WeightedTotal(leaves, sample_id, "completeness")
      /\ \A k \in 1..Len(db_superset_data) :
           db_superset_data[k].sample_id = sample_id =>
             LET ks == SetStatsUnder(db_superset_data[k].parent_id, sample_id)
                 count == Rat(Cardinality(ks), 1)
             IN /\ ks # {}
                /\ RatMul(db_superset_data[k].coverage, count) = ColumnTotal(ks, "coverage")
                /\ RatMul(db_superset_data[k].completeness, count) =
                     ColumnTotal(ks, "completeness")

\* C19: every step of an import leaves the hierarchy and all stored Sample
\* and statistic records unchanged and only adds records, and the mid-level
\* and top-level records written for a sample are the rollups of that
\* sample's own leaf statistics over the hierarchy, whatever its group_id and
\* whatever other samples the store holds.
C19_ImportOnlyAddsOwnRecords ==
  [][OnlyCreatesRecords]_vars /\ []RollupFromOwnLeaves

\* Two samples of different groups are imported, with different statistics
\* on a leaf they both cover, and both have mid-level and top-level records.
C19_Witness ==
  /\ ImportDone("s1") /\ ImportDone("s2")
  /\ \E a, b \in db_sample : a.id = "s1" /\ b.id = "s2" /\ a.group_id # b.group_id
  /\ \E iv \in db_interval : \E i, j \in 1..Len(db_interval_data) :
       /\ db_interval_data[i].parent_id = iv.id /\ db_interval_data[i].sample_id = "s1"
       /\ db_interval_data[j].parent_id = iv.id /\ db_interval_data[j].sample_id = "s2"
       /\ db_interval_data[i].coverage # db_interval_data[j].coverage
  /\ \A s \in SampleIds :
       /\ \E k \in 1..Len(db_set_data) : db_set_data[k].sample_id = s
       /\ \E k \in 1..Len(db_superset_data) : db_superset_data[k].sample_id = s

OnePerPair(table) ==
  \A i, j \in 1..Len(table) :
    (table[i].parent_id = table[j].parent_id /\ table[i].sample_id = table[j].sample_id)
      => i = j

\* C20: at each of the three levels the store holds at most one statistic
\* record per feature and sample, and every mid-level and top-level
\* statistic record names a stored feature.
C20_OneRecordPerFeatureAndSample ==
  /\ OnePerPair(db_interval_data)
  /\ OnePerPair(db_set_data)
  /\ OnePerPair(db_superset_data)
  /\ \A k \in 1..Len(db_set_data) : \E t \in db_set : t.id = db_set_data[k].parent_id
  /\ \A k \in 1..Len(db_superset_data) :
       \E g \in db_superset : g.id = db_superset_data[k].parent_id

\* Two samples are imported and a top-level feature with two mid-level
\* features has one record for each sample, as has each of the two.
C20_Witness ==
  /\ ImportDone("s1") /\ ImportDone("s2")
  /\ \E g \in db_superset :
       /\ Cardinality(ChildrenOf(g.id)) = 2
       /\ \A s \in SampleIds :
            /\ Cardinality(SetStatsUnder(g.id, s)) = 2
            /\ \E k \in 1..Len(db_superset_data) :
                 db_superset_data[k].parent_id = g.id /\ db_superset_data[k].sample_id = s

-----------------------------------------------------------------------------
(* Claims about the marks and the commits of a build, checked under SpecBuild *)

\* The interval tuples of the leaves a row lists, in the order of its
\* coordinate string.
LeavesOf(row) ==
  LET leaves == process_set(row)
  IN IF leaves[1] = "ok" THEN {leaves[2][i] : i \in 1..Len(leaves[2])} ELSE {}

\* C25: after a build on an empty store, a leaf stored with the mark 'first'
\* is the lowest-start leaf of a mid-level row that lists it, and a leaf
\* stored with the mark 'last' is the highest-end leaf of a mid-level row that
\* lists it.
C25_MarksFollowCoordinates ==
  (BuildSucceeded /\ FreshBuild) =>
    \A iv \in db_interval :
      /\ iv.first =>
           \E r \in PublicRows :
             iv.id \in LeafIdsOf(r) /\ \A l \in LeavesOf(r) : iv.start <= l[3]
      /\ iv.last =>
           \E r \in PublicRows :
             iv.id \in LeafIdsOf(r) /\ \A l \in LeavesOf(r) : l[4] <= iv.end

\* The passes of the loop over `bulk` further genes, with `period` for 3000:
\* the store and the session after them.
BulkEvery(period, store, bulk) ==
  LET last_commit == (bulk \div period) * period
  IN [store |-> [store EXCEPT !.bulk = @ + last_commit],
      session |-> [EmptySession EXCEPT !.bulk = bulk - last_commit]]

\* A build from the loop on, with `period` for 3000, on a table with `bulk`
\* further genes.
BuildEvery(period, store, all_sets, bulk) ==
  LET after == BulkEvery(period, store, bulk)
  IN ImportEvery(period, after.store,
                 LoopState(after.session, {}, IF bulk > 0 THEN BulkInterval ELSE NoInterval),
                 raw_supersets(all_sets), bulk + 1)

\* Commit after every group, every 3000 groups, and only once at the end.
CommitPeriods == {1, CommitEvery, 2 * CommitEvery + 2}

\* The hierarchy the store can have held when the loop of this build began.
StoresAtLoopStart ==
  {IF bd_force THEN EmptyStore ELSE target.store :
     target \in {t \in BuildTargets :
                   t.dialect = bd_dialect /\ t.path_exists = bd_path_exists}}

\* C26: when a build returns True, the hierarchy it leaves in the store is
\* the one the build leaves with a commit after every top-level group, with
\* a commit every 3000 groups and with the final commit alone.
C26_CommitPeriodDoesNotMatter ==
  BuildSucceeded =>
    \E store \in StoresAtLoopStart : \A period \in CommitPeriods :
      BuildEvery(period, store, bd_table, db_bulk - store.bulk) = <<"ok", CurrentStore>>

\* A build has returned True on a table of more than 3000 genes: the 3000th
\* pass committed, and a top-level feature was added after that commit.
C26_Witness ==
  /\ BuildSucceeded
  /\ db_bulk = CommitEvery - 1
  /\ bd_count > CommitEvery + 1
  /\ Cardinality(db_superset) >= 2

-----------------------------------------------------------------------------
(* Claims about legacy identifiers, checked under SpecParse *)

\* The legacy zero-based identifier of the exon written as the one-based
\* pair (start, end) on a contig.
LegacyId(contig_id, pair) ==
  contig_id \o <<"-">> \o IntStr(pair[1] - 1) \o <<"-">> \o IntStr(pair[2] - 1)

\* C29: for every exon of a row, the identifier _convert_old_interval_id
\* makes of the exon's legacy zero-based identifier keeps the contig, adds 1
\* to start and end, and is the identifier of the leaf the build stores for
\* that exon.
C29_LegacyIdsNameStoredLeaves ==
  pr_pc = "done" =>
    \A i \in 1..Len(pr_written) :
      LET new_id == convert_old_interval_id(LegacyId(pr_row.chromosome, pr_written[i]))
      IN /\ new_id = pr_row.chromosome \o <<"-">> \o IntStr(pr_written[i][1]) \o <<"-">>
                       \o IntStr(pr_written[i][2])
         /\ new_id = pr_leaves[i][1]

-----------------------------------------------------------------------------
(* Claims about the order of the steps of an import, checked under SpecRollup *)

\* The records a step appends to a table.
AddedTo(old, new) == SubSeq(new, Len(old) + 1, Len(new))

\* The appended records are one per parent in `parents`, all of the sample of
\* the run.
OnePerParent(added, parents) ==
  /\ Len(added) = Cardinality(parents)
  /\ {added[k].parent_id : k \in 1..Len(added)} = parents
  /\ \A k \in 1..Len(added) : added[k].sample_id = imp_sample

\* The mid-level features with a stored leaf statistic of the sample.
SetsWithLeafStat(sample_id) == {t.id : t \in {s \in db_set : LeavesWithStat(s.id, sample_id) # {}}}

\* The top-level features with a stored mid-level statistic of the sample.
SupersetsWithSetStat(sample_id) ==
  {g.id : g \in {s \in db_superset : SetStatsUnder(s.id, sample_id) # {}}}

ImportStepsInOrder ==
  /\ db_interval_data' # db_interval_data =>
       imp_pc = "idle" /\ imp_pc' = "leaves" /\ UNCHANGED <<db_set_data, db_superset_data>>
  /\ db_set_data' # db_set_data =>
       imp_pc = "leaves" /\ imp_pc' = "sets" /\ UNCHANGED <<db_interval_data, db_superset_data>>
  /\ db_superset_data' # db_superset_data =>
       imp_pc = "sets" /\ imp_pc' = "idle" /\ UNCHANGED <<db_interval_data, db_set_data>>
  /\ imp_pc' # imp_pc =>
       \/ imp_pc = "idle" /\ imp_pc' = "leaves"
       \/ /\ imp_pc = "leaves" /\ imp_pc' = "sets"
          /\ OnePerParent(AddedTo(db_set_data, db_set_data'), SetsWithLeafStat(imp_sample))
       \/ /\ imp_pc = "sets" /\ imp_pc' = "idle"
          /\ \A set_id \in SetsWithLeafStat(imp_sample) :
               \E k \in 1..Len(db_set_data) :
                 db_set_data[k].parent_id = set_id /\ db_set_data[k].sample_id = imp_sample
          /\ OnePerParent(AddedTo(db_superset_data, db_superset_data'),
                          SupersetsWithSetStat(imp_sample))

\* C23: in an import the leaf statistic records are committed first; the
\* mid-level rollup is then evaluated on the stored leaf records of the run
\* and committed; only then is the top-level rollup evaluated, on the stored
\* mid-level records of the run, and committed.
C23_RollupsFollowCommits == [][ImportStepsInOrder]_vars

\* An import has returned whose leaf records gave mid-level records and whose
\* mid-level records gave top-level records.
C23_Witness ==
  /\ imp_pc = "idle" /\ imp_result = "True"
  /\ SetsWithLeafStat(imp_sample) # {}
  /\ \E k \in 1..Len(db_superset_data) : db_superset_data[k].sample_id = imp_sample

-----------------------------------------------------------------------------
(* Claims about annotate and the import of its output, checked under
   SpecAnnotate *)

ImportErrors == {"ValueError", "IndexError", "IntegrityError"}

\* A call of import_data that raises before its commit leaves every table as
\* it was.
FailedImportStoresNothing ==
  (imp_pc = "idle" /\ imp_pc' = "idle" /\ imp_result' \in ImportErrors) =>
    UNCHANGED <<db_superset, db_set, db_interval, db_interval_set, db_sample,
                db_interval_data, db_set_data, db_superset_data>>

RECURSIVE GroupsOfContigs(_)
GroupsOfContigs(contig_ids) ==
  IF contig_ids = <<>> THEN <<>>
  ELSE LET groups == group_intervals(get_intervals(Head(contig_ids)),
                                     an_args.bp_threshold, an_args.extension)
       IN [i \in 1..Len(groups) |-> <<Head(contig_ids), groups[i]>>]
            \o GroupsOfContigs(Tail(contig_ids))

RunGroups == GroupsOfContigs(get_chromosomes(an_args.prepend))

\* The number of intervals in the first n groups.
RECURSIVE IntervalsIn(_, _)
IntervalsIn(groups, n) ==
  IF n = 0 THEN 0 ELSE Len(groups[n][2]) + IntervalsIn(groups, n - 1)

AnnotateRunning == an_pc \notin {"off", "called"}

AnnotateReturned == an_pc = "returned" /\ an_result = "0"

\* C24: the reads of a run are one per group, in the order of the groups
\* (contig by contig in the order of the contig list, within a contig in the
\* batcher's order); when the read of a group returns, every line of the
\* earlier groups and no line of this group is written; reads of one contig
\* are consecutive; a run that returns has read once per group.
C24_OneReadPerGroupInOrder ==
  AnnotateRunning =>
    LET n == Len(an_reads)
    IN /\ n <= Len(RunGroups)
       /\ \A i \in 1..n :
            /\ an_reads[i].contig_id = RunGroups[i][1]
            /\ an_reads[i].start = RunGroups[i][2][1][1]
            /\ an_reads[i].written = 1 + IntervalsIn(RunGroups, i - 1)
       /\ Len(an_out) = 1 + IntervalsIn(RunGroups, IF an_pc = "group" THEN n - 1 ELSE n)
       /\ \A i, j, k \in 1..n :
            (i < j /\ j < k /\ an_reads[i].contig_id = an_reads[k].contig_id) =>
              an_reads[j].contig_id = an_reads[i].contig_id
       /\ AnnotateReturned => n = Len(RunGroups)

\* A run has returned after two reads on one contig and one on another.
C24_Witness ==
  /\ AnnotateReturned
  /\ Len(an_reads) = 3
  /\ an_reads[1].contig_id = an_reads[2].contig_id
  /\ an_reads[2].contig_id # an_reads[3].contig_id

\* C22: the depths read for a group cover its span from the start of its
\* first interval to the largest end of any of its intervals, so the slice of
\* every interval (s, e, id) starts at an offset of at least 0 and holds the
\* e - s + 1 depths of positions s..e.
C22_ReadCoversGroupSpan ==
  an_pc = "group" =>
    LET group == Head(an_groups)
        group_start == group[1][1]
    IN /\ Len(an_depths) = LargestEnd(group) - group_start + 1
       /\ \A i \in 1..Len(group) :
            LET s == group[i][1]
                e == group[i][2]
            IN /\ 0 <= s - group_start
               /\ PySlice(an_depths, s - group_start, e - group_start + 1)
                    = read(an_source, an_contig_id, s, e)

\* The data lines of the output that carry the leaf id.
LinesOfLeaf(id) == {i \in 2..Len(an_out) : csv_row(an_out[i])[1] = <<id>>}

\* C30: a run that returns has written exactly one data line for each leaf
\* stored on one of the contigs 1 to 23, X and Y, whatever the prepend.
C30_OneLinePerStoredLeaf ==
  AnnotateReturned =>
    \A iv \in db_interval :
      iv.contig_id \in SequenceRange(get_chromosomes(<<>>)) =>
        Cardinality(LinesOfLeaf(iv.id)) = 1

EndsWith(s, suffix) ==
  Len(suffix) <= Len(s) /\ SubSeq(s, Len(s) - Len(suffix) + 1, Len(s)) = suffix

\* The intervals of the first n groups, in order.
RECURSIVE IntervalsOf(_, _)
IntervalsOf(groups, n) ==
  IF n = 0 THEN <<>> ELSE IntervalsOf(groups, n - 1) \o groups[n][2]

\* C21: the output of annotate is one header line, first, that carries
\* sample_id, group_id, cutoff, extension and the two source paths, then one
\* line of tab-separated leaf id, coverage and completeness per annotated
\* leaf; import_data of it stores one Sample record with the header's values
\* and per data line one leaf statistic record with the line's leaf id,
\* coverage and completeness and the header's sample_id and group_id.
C21_OutputImportsAsWritten ==
  AnnotateRunning =>
    LET header == json_loads(Tail(an_out[1]))
        Fields(i) == csv_row(an_out[i + 1])
        annotated == IntervalsOf(RunGroups,
                                 IF an_pc = "group" THEN Len(an_reads) - 1 ELSE Len(an_reads))
    IN /\ an_out[1][1] = "#"
       /\ header.sample_id = an_args.sample_id
       /\ header.group_id = an_args.group_id
       /\ header.cutoff = an_args.cutoff
       /\ header.extension = an_args.extension
       /\ EndsWith(header.coverage_source, an_args.bam_path)
       /\ EndsWith(header.element_source, an_args.sql_path)
       /\ Len(an_out) - 1 = Len(annotated)
       /\ \A i \in 1..(Len(an_out) - 1) :
            /\ an_out[i + 1][1] # "#"
            /\ Fields(i)[1] = <<annotated[i][3]>>
            /\ FloatParses(Fields(i)[2])
            /\ FloatParses(Fields(i)[3])
       /\ db_sample # {} =>
            /\ db_sample = {[id |-> header.sample_id, group_id |-> header.group_id,
                             cutoff |-> header.cutoff,
                             coverage_source |-> header.coverage_source,
                             element_source |-> header.element_source,
                             extension |-> header.extension]}
            /\ Len(db_interval_data) = Len(an_out) - 1
            /\ \A i \in 1..Len(db_interval_data) :
                 db_interval_data[i] =
                   [parent_id |-> annotated[i][3], sample_id |-> header.sample_id,
                    group_id |-> header.group_id, coverage |-> FloatOf(Fields(i)[2]),
                    completeness |-> FloatOf(Fields(i)[3])]

\* The output of a run over three leaves is imported; a coverage in it is no
\* whole number and differs from the completeness of its line.
C21_Witness ==
  /\ AnnotateReturned
  /\ imp_result = "True"
  /\ Len(db_interval_data) = 3
  /\ \E i \in 1..3 :
       /\ db_interval_data[i].coverage[2] > 1
       /\ db_interval_data[i].coverage # db_interval_data[i].completeness

-----------------------------------------------------------------------------
(* Claims about a forced build, checked under SpecBuild *)

\* C28: once a build with force has wiped the store, and after it returns,
\* the store holds no Sample record and no statistic record, and every
\* top-level feature, mid-level feature and leaf it holds is one of a Public
\* row of the new reference table; after a successful forced build the
\* hierarchy is the one a build of the new table on an empty store gives.
C28_ForceDropsEveryTable ==
  (bd_force /\ bd_pc \in {"loop", "returned"}) =>
    /\ db_sample = {}
    /\ db_interval_data = <<>>
    /\ db_set_data = <<>>
    /\ db_superset_data = <<>>
    /\ \A g \in db_superset : \E r \in PublicRows : g.id = SupersetIdOf(r)
    /\ \A t \in db_set : \E r \in PublicRows : t.id = SetIdOf(r)
    /\ \A iv \in db_interval : \E r \in PublicRows : iv.id \in LeafIdsOf(r)
    /\ \A l \in db_interval_set :
         \E r \in PublicRows : l[1] \in LeafIdsOf(r) /\ l[2] = SetIdOf(r)
    /\ BuildSucceeded =>
         BuildEvery(CommitEvery, EmptyStore, bd_table, db_bulk) = <<"ok", CurrentStore>>

\* A forced build on an existing sqlite store that held an earlier hierarchy
\* and an imported sample has returned True, and no leaf of the earlier
\* hierarchy is stored.
C28_Witness ==
  /\ bd_force /\ bd_path_exists /\ BuildSucceeded
  /\ db_interval # {}
  /\ \A iv \in OldStore.interval : \A kept \in db_interval : kept.id # iv.id

=============================================================================
